---------------------------- MODULE Spec2Model ----------------------------
(***************************************************************************)
(* A model of the Atom Scheme interpreter (src/src/atom.cpp): the cell     *)
(* heap and its mark-and-sweep collector, the chained environment frames,  *)
(* the recursive-descent parser over the token buffer, the tree-walking    *)
(* evaluator with its built-in special forms, and the top-level driver     *)
(* atom_api_load with its setjmp/longjmp error escape.                     *)
(*                                                                         *)
(* A cell pointer is a natural number (an index into `cells`), NULL is 0.  *)
(* An Environment pointer is an index into `frames`, NULL is 0.            *)
(* The interpreter state is threaded through the operators as a record s   *)
(* whose fields mirror the variables below; s.val carries the return value *)
(* of the C function the operator models and s.status how it ended:        *)
(*   "ok"        the function returned                                     *)
(*   "error"     signal_error ran, the longjmp to cont->escape is in flight*)
(*   "crash"     the process was killed (failed assert, SIGSEGV)           *)
(*   "undefined" undefined behaviour went on with an arbitrary result      *)
(*   "timeout"   the evaluation is still running after MaxEvalSteps        *)
(***************************************************************************)
EXTENDS Integers, Sequences, FiniteSets, TLC

VARIABLES
    ndebug,         \* the build: TRUE when assert() compiles to nothing
    cells,          \* the memory of every Cell ever allocated, by address
    freed,          \* addresses that free() has been called on
    cont_cells,     \* Continuation::cells, the allocation list, head first
    cont_allocated, \* Continuation::allocated
    cont_escape,    \* Continuation::escape and its prev chain, top first
    frames,         \* every Environment created, by address
    frames0,        \* `frames` before the last step that evaluates or binds
    status,         \* the process: see above
    pc,             \* where the top-level atom_api_load activation stands
    tokens,         \* the top-level activation's TokenList::tokens
    next,           \* the top-level activation's TokenList::next
    prev,           \* the top-level activation's local `prev`
    text,           \* name of the text the top-level activation was given
    loads,          \* number of top-level atom_api_load calls made so far
    result,         \* what the last top-level eval returned (a cell address)
    outcome,        \* how the last top-level parse/eval step ended
    evaluated,      \* top-level data of the current text already evaluated
    gclog,          \* for each collect_garbage run: the number of active eval calls
    errors,         \* number of "Error: ..." lines written to stderr
    message,        \* the last of them, as far as the properties tell them apart
    closed,         \* the FILE handles fclose() was called on, in order
    events,         \* what the atom_api_load activations did since the current
                    \* text was given: "enter", "destroy" (of the token buffer),
                    \* "collect" and "return", and the signal_error calls:
                    \* "error", each with cont->escape as it was
    applied,        \* for each closure body entered while the current text is
                    \* loaded: the number of eval calls active at that point
    suite,          \* which group of texts this run draws its inputs from
    input,          \* SpecRead: struct Input (the text and the position in
                    \* it) and the number of read_token calls made on it
    reread,         \* SpecRead: the datum parsed from the text print wrote
    call            \* SpecEnv: the environment operation applied last, and how many were

vars == << ndebug, cells, freed, cont_cells, cont_allocated, cont_escape,
           frames, frames0, status, pc, tokens, next, prev, text, loads, result,
           outcome, evaluated, gclog, errors, message, closed, events, applied, suite,
           input,
           reread, call >>

NULL == 0

(***************************************************************************)
(* Bounds of the model.                                                    *)
(***************************************************************************)
MaxLoads == 2

MaxEvalSteps == 150

MaxFrames == 3

MaxEnvOps == 4

MaxVector == 6

(***************************************************************************)
(* Tokens (struct Token, enum Type).                                       *)
(***************************************************************************)
Tok(t, n, str) == [type |-> t, number |-> n, string |-> str]

LP == Tok("TOKEN_LIST_START", 0, "")

RP == Tok("TOKEN_LIST_END", 0, "")

VS == Tok("TOKEN_VECTOR_START", 0, "")

QT == Tok("TOKEN_QUOTE", 0, "")

BT == Tok("TOKEN_BACKTICK", 0, "")

CM == Tok("TOKEN_COMMA", 0, "")

CA == Tok("TOKEN_COMMA_AT", 0, "")

DOT == Tok("TOKEN_DOT", 0, "")

Id(str) == Tok("TOKEN_IDENTIFIER", 0, str)

Nm(n) == Tok("TOKEN_NUMBER", n, "")

Str(str) == Tok("TOKEN_STRING", 0, str)

Bool(b) == Tok("TOKEN_BOOLEAN", IF b THEN 1 ELSE 0, "")

Chr(c) == Tok("TOKEN_CHARACTER", 0, c)

(***************************************************************************)
(* Cells (struct Cell).  The union Cell::Data is spread over one field per *)
(* member; make_cell zeroes all of them.                                   *)
(***************************************************************************)
ZeroCell(t) ==
    [type |-> t, boolean |-> FALSE, character |-> "", number |-> 0,
     string |-> "", symbol |-> "", car |-> NULL, cdr |-> NULL,
     vector |-> << >>, function |-> "", formals |-> NULL, body |-> NULL,
     env |-> NULL, port |-> "", mark |-> FALSE]

\* static Cell cell_true, cell_false: not on the allocation list
cell_true == 1

cell_false == 2

StaticCells ==
    << [ZeroCell("TYPE_BOOLEAN") EXCEPT !.boolean = TRUE],
       ZeroCell("TYPE_BOOLEAN") >>

make_boolean(value) == IF value THEN cell_true ELSE cell_false

(***************************************************************************)
(* How a function ends other than by returning.                            *)
(***************************************************************************)
Ok(s) == s.status = "ok"

\* undefined behaviour (a NULL or dangling dereference, a read of the wrong
\* union member): the outcome s.ub the step drew for it
UB(s) == [s EXCEPT !.status = s.ub, !.val = NULL]

UBOutcomes == {"crash", "undefined"}

\* assert(false): abort() unless the build defines NDEBUG
AssertFailed(s) == [s EXCEPT !.status = "crash", !.val = NULL]

\* an entry of s.events
Event(op_, s) == [op |-> op_, escape |-> s.escape]

\* the message goes to stderr, then longjmp(cont->escape->buffer, 1), which
\* reads through cont->escape
signal_error(s) ==
    IF s.escape = << >>
    THEN UB([s EXCEPT !.errors = @ + 1, !.message = "other",
                      !.events = Append(@, Event("error", s))])
    ELSE [s EXCEPT !.errors = @ + 1, !.message = "other",
                   !.events = Append(@, Event("error", s)),
                   !.status = "error", !.val = NULL]

\* a pointer the code may dereference: not NULL and not freed
Live(s, c) == c # NULL /\ c \in DOMAIN s.cells /\ c \notin s.freed

IsType(s, c, t) == Live(s, c) /\ s.cells[c].type = t

(***************************************************************************)
(* Heap.                                                                   *)
(***************************************************************************)
make_cell(s, t) ==
    LET result_ == Len(s.cells) + 1
    IN  [s EXCEPT !.cells = Append(@, ZeroCell(t)),
                  !.list = << result_ >> \o @,
                  !.allocated = @ + 1,
                  !.val = result_]

cons(s, car_, cdr_) ==
    LET s1 == make_cell(s, "TYPE_PAIR")
    IN  [s1 EXCEPT !.cells[s1.val].car = car_, !.cells[s1.val].cdr = cdr_]

make_number(s, value) ==
    LET s1 == make_cell(s, "TYPE_NUMBER")
    IN  [s1 EXCEPT !.cells[s1.val].number = value]

make_character(s, c) ==
    LET s1 == make_cell(s, "TYPE_CHARACTER")
    IN  [s1 EXCEPT !.cells[s1.val].character = c]

(***************************************************************************)
(* Characters.  A char is a string of one character, the terminating NUL   *)
(* of a C string is the empty string, and a char* is held as a string      *)
(* value; Chars gives its characters up to the NUL.                        *)
(***************************************************************************)
NUL == ""

\* the strings of more than one character that the model meets
Spelling ==
    [ab |-> << "a", "b" >>,
     quote |-> << "q", "u", "o", "t", "e" >>,
     quasiquote |-> << "q", "u", "a", "s", "i", "q", "u", "o", "t", "e" >>,
     unquote |-> << "u", "n", "q", "u", "o", "t", "e" >>]

Chars(str) ==
    IF str = NUL THEN << >>
    ELSE IF str \in DOMAIN Spelling THEN Spelling[str]
    ELSE << str >>


(***************************************************************************)
(* Collector: mark_environment, mark, collect_garbage.                     *)
(***************************************************************************)
RECURSIVE mark(_, _), mark_environment(_, _), mark_nodes(_, _, _), mark_vector(_, _, _)

\* the loop over a bucket chain in mark_environment, from node i on
mark_nodes(s, nodes, i) ==
    IF ~Ok(s) \/ i > Len(nodes) THEN s
    ELSE mark_nodes(mark(s, nodes[i].value), nodes, i + 1)

\* only the frame's own buckets are walked: env->parent is not followed
mark_environment(s, env) == mark_nodes(s, s.frames[env].data, 1)

mark_vector(s, data, i) ==
    IF ~Ok(s) \/ i > Len(data) THEN s
    ELSE mark_vector(mark(s, data[i]), data, i + 1)

mark(s, cell) ==
    IF ~Ok(s) \/ cell = NULL THEN s
    ELSE IF ~Live(s, cell) THEN UB(s)          \* cell->mark of a freed cell
    ELSE IF s.cells[cell].mark THEN s
    ELSE LET s1 == [s EXCEPT !.cells[cell].mark = TRUE]
             c  == s.cells[cell]
         IN  CASE c.type = "TYPE_PAIR" -> mark(mark(s1, c.car), c.cdr)
               [] c.type = "TYPE_VECTOR" -> mark_vector(s1, c.vector, 1)
               [] c.type = "TYPE_PROCEDURE" ->
                    IF c.function = ""
                    THEN mark_environment(mark(mark(s1, c.formals), c.body), c.env)
                    ELSE s1
               [] OTHER -> s1

\* a loop that frees the unmarked cells and leaves cont->allocated alone
sweep_uncounted(s) ==
    LET kept == SelectSeq(s.list, LAMBDA c : s.cells[c].mark)
        dead == SelectSeq(s.list, LAMBDA c : ~s.cells[c].mark)
    IN  [s EXCEPT !.cells = [c \in DOMAIN s.cells |->
                                IF \E i \in DOMAIN kept : kept[i] = c
                                THEN [s.cells[c] EXCEPT !.mark = FALSE]
                                ELSE s.cells[c]],
                  !.list = [i \in DOMAIN kept |-> kept[Len(kept) + 1 - i]],
                  !.freed = @ \cup {dead[i] : i \in DOMAIN dead}]

\* the for loop of collect_garbage over the allocation list: a marked cell
\* has its mark cleared and is pushed on `remaining`, any other cell is
\* freed, and its FILE closed if it is a port other than stdin and stdout
sweep(s) ==
    LET kept == SelectSeq(s.list, LAMBDA c : s.cells[c].mark)
        dead == SelectSeq(s.list, LAMBDA c : ~s.cells[c].mark)
        ports == SelectSeq(dead, LAMBDA c :
                     /\ s.cells[c].type \in {"TYPE_INPUT_PORT", "TYPE_OUTPUT_PORT"}
                     /\ s.cells[c].port \notin {"stdin", "stdout"})
        swept == [s EXCEPT
                  !.cells = [c \in DOMAIN s.cells |->
                                IF \E i \in DOMAIN kept : kept[i] = c
                                THEN [s.cells[c] EXCEPT !.mark = FALSE]
                                ELSE s.cells[c]],
                  !.list = [i \in DOMAIN kept |-> kept[Len(kept) + 1 - i]],
                  !.freed = @ \cup {dead[i] : i \in DOMAIN dead},
                  !.allocated = @ - Len(dead),
                  !.closed = @ \o [i \in DOMAIN ports |-> s.cells[ports[i]].port]]
    IN  IF \E i \in DOMAIN ports, j \in DOMAIN s.closed :
               s.closed[j] = s.cells[ports[i]].port
        THEN UB(swept)                       \* fclose of a stream closed before
        ELSE swept

collect_garbage(s) ==
    LET s1 == mark_environment([s EXCEPT !.gclog = Append(@, s.depth)], s.env)
    IN  IF ~Ok(s1) THEN s1 ELSE sweep(s1)


(***************************************************************************)
(* Environment (struct Environment).  Every frame is created with size 1   *)
(* (create_environment), so mask = 0 and hash & mask = 0 for every symbol: *)
(* a frame is one bucket, a chain of nodes with the newest node first.     *)
(***************************************************************************)
Node(symbol_, value_) == [symbol |-> symbol_, value |-> value_]

create_environment(s, parent_) ==
    [s EXCEPT !.frames = Append(@, [parent |-> parent_, data |-> << >>]),
              !.val = Len(s.frames) + 1]

\* index of the first node of the chain `nodes` that holds `str`, 0 if none
RECURSIVE FindNode(_, _, _)
FindNode(nodes, str, i) ==
    IF i > Len(nodes) THEN 0
    ELSE IF nodes[i].symbol = str THEN i
    ELSE FindNode(nodes, str, i + 1)

\* a lookup that searches the root frame only
environment_get_root(s, env, str) ==
    LET i == FindNode(s.frames[s.env].data, str, 1)
    IN  IF i # 0 THEN [s EXCEPT !.val = s.frames[s.env].data[i].value]
        ELSE signal_error(s)

RECURSIVE environment_get(_, _, _)
environment_get(s, env, str) ==
    LET i == FindNode(s.frames[env].data, str, 1)
    IN  IF i # 0 THEN [s EXCEPT !.val = s.frames[env].data[i].value]
        ELSE IF s.frames[env].parent # NULL
        THEN environment_get(s, s.frames[env].parent, str)
        ELSE signal_error(s)

environment_define(s, env, str, value_) ==
    LET i == FindNode(s.frames[env].data, str, 1)
    IN  IF i # 0 THEN [s EXCEPT !.frames[env].data[i].value = value_]
        ELSE [s EXCEPT !.frames[env].data = << Node(str, value_) >> \o @]

\* the do-while ends with env == NULL, and the signal_error call then reads
\* env->cont through that NULL pointer
\* an assignment that looks no further than the frame it is given
environment_set_local(s, env, str, value_) ==
    environment_define(s, env, str, value_)

RECURSIVE environment_set(_, _, _, _)
environment_set(s, env, str, value_) ==
    LET i == FindNode(s.frames[env].data, str, 1)
    IN  IF i # 0 THEN [s EXCEPT !.frames[env].data[i].value = value_]
        ELSE IF s.frames[env].parent # NULL
        THEN environment_set(s, s.frames[env].parent, str, value_)
        ELSE UB(s)

\* type_check(cont, expected, actual)
\* the message prints typenames[expected] and typenames[actual]; the table
\* has no entry for the two port types
TypeNames ==
    {"TYPE_BOOLEAN", "TYPE_CHARACTER", "TYPE_NUMBER", "TYPE_STRING",
     "TYPE_PAIR", "TYPE_VECTOR", "TYPE_SYMBOL", "TYPE_PROCEDURE"}

type_check(s, expected, actual) ==
    IF actual = expected THEN s
    ELSE IF actual \in TypeNames /\ expected \in TypeNames THEN signal_error(s)
    ELSE UB(s)


(***************************************************************************)
(* Parser: recursive descent over the token buffer (s.tokens, s.next).     *)
(* TokenList::next counts from 0; token k of the buffer is s.tokens[k+1].  *)
(***************************************************************************)
\* TokenList::peek: NULL past the end
HasToken(s) == s.next < Len(s.tokens)

Peek(s) == s.tokens[s.next + 1]

skip(s) == [s EXCEPT !.next = @ + 1]

Tick(s) == [s EXCEPT !.fuel = @ - 1]

TimedOut(s) == [s EXCEPT !.status = "timeout", !.val = NULL]

parse_simple_datum(s) ==
    IF ~HasToken(s) THEN [s EXCEPT !.val = NULL]
    ELSE LET tk == Peek(s)
             c(ty) == make_cell(s, ty)
         IN  CASE tk.type = "TOKEN_BOOLEAN" ->
                    skip([c("TYPE_BOOLEAN") EXCEPT !.cells[c("TYPE_BOOLEAN").val].boolean = (tk.number = 1)])
               [] tk.type = "TOKEN_CHARACTER" ->
                    skip([c("TYPE_CHARACTER") EXCEPT !.cells[c("TYPE_CHARACTER").val].character = tk.string])
               [] tk.type = "TOKEN_NUMBER" ->
                    skip(make_number(s, tk.number))
               [] tk.type = "TOKEN_IDENTIFIER" ->
                    skip([c("TYPE_SYMBOL") EXCEPT !.cells[c("TYPE_SYMBOL").val].symbol = tk.string])
               [] tk.type = "TOKEN_STRING" ->
                    skip([c("TYPE_STRING") EXCEPT !.cells[c("TYPE_STRING").val].string = tk.string])
               [] OTHER -> [s EXCEPT !.val = NULL]

AbreviationSymbol(ty) ==
    CASE ty = "TOKEN_QUOTE" -> "quote"
      [] ty = "TOKEN_BACKTICK" -> "quasiquote"
      [] ty = "TOKEN_COMMA" -> "unquote"
      [] ty = "TOKEN_COMMA_AT" -> "unquote-splicing"
      [] OTHER -> ""

RECURSIVE parse_datum(_), parse_list_loop(_, _, _), parse_vector_loop(_, _)

parse_abreviation(s) ==
    IF ~HasToken(s) THEN signal_error(s)
    ELSE IF AbreviationSymbol(Peek(s).type) = "" THEN [s EXCEPT !.val = NULL]
    ELSE LET s1 == make_cell(s, "TYPE_SYMBOL")
             abreviation == s1.val
             s2 == [s1 EXCEPT !.cells[abreviation].symbol = AbreviationSymbol(Peek(s).type)]
             s3 == parse_datum(skip(s2))
         IN  IF ~Ok(s3) THEN s3
             ELSE LET s4 == cons(s3, s3.val, NULL)
                  IN  cons(s4, abreviation, s4.val)

\* the for (;;) of parse_list; `list` is the last pair built so far
parse_list_loop(s, head, list) ==
    IF s.fuel = 0 THEN TimedOut(s)
    ELSE IF ~HasToken(s) THEN signal_error(s)
    ELSE IF Peek(s).type = "TOKEN_DOT"
    THEN LET s1 == parse_datum(skip(Tick(s)))
         IN  IF ~Ok(s1) THEN s1
             ELSE IF s1.val = NULL THEN signal_error(s1)
             ELSE LET s2 == [s1 EXCEPT !.cells[list].cdr = s1.val]
                  IN  IF ~HasToken(s2) THEN UB(s2)   \* tokens.peek()->type on NULL
                      ELSE IF Peek(s2).type # "TOKEN_LIST_END" THEN signal_error(s2)
                      ELSE [skip(s2) EXCEPT !.val = head]
    ELSE IF Peek(s).type = "TOKEN_LIST_END"
    THEN [skip(s) EXCEPT !.val = head]
    ELSE LET s1 == parse_datum(Tick(s))
         IN  IF ~Ok(s1) THEN s1
             ELSE IF s1.val = NULL THEN signal_error(s1)
             ELSE LET s2 == cons(s1, s1.val, NULL)
                      rest == s2.val
                  IN  parse_list_loop([s2 EXCEPT !.cells[list].cdr = rest], head, rest)

parse_list(s) ==
    IF ~HasToken(s) THEN [s EXCEPT !.val = NULL]
    ELSE IF Peek(s).type # "TOKEN_LIST_START" THEN parse_abreviation(s)
    ELSE LET s1 == parse_datum(skip(s))
         IN  IF ~Ok(s1) THEN s1
             ELSE LET s2 == cons(s1, s1.val, NULL)
                  IN  parse_list_loop(s2, s2.val, s2.val)

\* the for (;;) of parse_vector; the closing TOKEN_LIST_END is not skipped.
\* The model follows the loop for MaxVector iterations.
parse_vector_loop(s, stack) ==
    IF s.fuel = 0 \/ Len(stack) >= MaxVector THEN TimedOut(s)
    ELSE IF ~HasToken(s) THEN signal_error(s)
    ELSE IF Peek(s).type = "TOKEN_LIST_END"
    THEN LET s1 == make_cell(s, "TYPE_VECTOR")
         IN  [s1 EXCEPT !.cells[s1.val].vector = stack]
    ELSE LET s1 == parse_datum(Tick(s))
         IN  IF ~Ok(s1) THEN s1
             ELSE parse_vector_loop(s1, Append(stack, s1.val))

parse_vector(s) ==
    IF ~HasToken(s) THEN signal_error(s)
    ELSE IF Peek(s).type # "TOKEN_VECTOR_START" THEN [s EXCEPT !.val = NULL]
    ELSE parse_vector_loop(skip(s), << >>)

parse_compound_datum(s) ==
    LET s1 == parse_list(s)
    IN  IF ~Ok(s1) \/ s1.val # NULL THEN s1 ELSE parse_vector(s1)

parse_datum(s) ==
    LET s1 == parse_simple_datum(s)
    IN  IF s1.val # NULL THEN s1 ELSE parse_compound_datum(s1)


(***************************************************************************)
(* Evaluator helpers.  Every operator takes the state s and returns the    *)
(* state after the C function, with its return value in val.               *)
(***************************************************************************)
RECURSIVE eval(_, _, _), atom_api_load(_, _)

Return(s, v) == [s EXCEPT !.val = v]

\* sequencing: the rest of a function body, F, runs in the state s that the
\* call before it left, unless that call did not return (signal_error's
\* longjmp is in flight, or the process is gone)
Then(s, F(_)) == IF Ok(s) THEN F(s) ELSE s

\* car()/cdr() applied to something that is not a live pair.  assert catches
\* a live cell of another type; a NULL or freed pointer is read either way.
BadPair(s, cell) ==
    IF Live(s, cell) /\ ~s.ndebug THEN AssertFailed(s) ELSE UB(s)

car(s, cell) ==
    IF IsType(s, cell, "TYPE_PAIR") THEN Return(s, s.cells[cell].car)
    ELSE BadPair(s, cell)

cdr(s, cell) ==
    IF IsType(s, cell, "TYPE_PAIR") THEN Return(s, s.cells[cell].cdr)
    ELSE BadPair(s, cell)

\* car(cdr(cell))
cadr(s, cell) == Then(cdr(s, cell), LAMBDA s1 : car(s1, s1.val))

\* is_false(cell), also written out in atom_if, atom_cond and atom_not:
\* cell->type is read without a NULL test
IsFalseCell(s, cell) ==
    s.cells[cell].type = "TYPE_BOOLEAN" /\ s.cells[cell].boolean = FALSE

\* the for loop of nth_param_any_optional: k more cdr steps from params
RECURSIVE nth_cdr(_, _, _)
nth_cdr(s, params, k) ==
    IF k = 0 THEN Return(s, params)
    ELSE Then(cdr(s, params), LAMBDA s1 :
            IF s1.val = NULL THEN s1 ELSE nth_cdr(s1, s1.val, k - 1))

nth_param_any_optional(s, env, params, n) ==
    Then(nth_cdr(s, params, n - 1), LAMBDA s1 :
        IF s1.val = NULL THEN s1
        ELSE Then(car(s1, s1.val), LAMBDA s2 : eval(s2, env, s2.val)))

\* a NULL result - a missing parameter, or a parameter whose value is the
\* empty list - is reported as "Too few parameters passed"
nth_param_any(s, env, params, n) ==
    Then(nth_param_any_optional(s, env, params, n), LAMBDA s1 :
        IF s1.val = NULL
        THEN [signal_error(s1) EXCEPT !.message = "Too few parameters passed"]
        ELSE s1)

\* type_check(env->cont, type, result->type); return result;
checked(s, ty) ==
    IF ~Live(s, s.val) THEN UB(s)
    ELSE Return(type_check(s, ty, s.cells[s.val].type), s.val)

nth_param(s, env, params, n, ty) ==
    Then(nth_param_any(s, env, params, n), LAMBDA s1 : checked(s1, ty))

nth_param_optional(s, env, params, n, ty) ==
    Then(nth_param_any_optional(s, env, params, n), LAMBDA s1 :
        IF s1.val = NULL THEN s1 ELSE checked(s1, ty))

make_procedure(s, env, formals_, body_) ==
    IF ~Live(s, formals_) THEN UB(s)                  \* formals->type
    ELSE Then(type_check(s, "TYPE_PAIR", s.cells[formals_].type), LAMBDA s1 :
         IF ~Live(s1, body_) THEN UB(s1)              \* body->type
         ELSE Then(type_check(s1, "TYPE_PAIR", s1.cells[body_].type), LAMBDA s2 :
              Then(make_cell(s2, "TYPE_PROCEDURE"), LAMBDA s3 :
                  [s3 EXCEPT !.cells[s3.val].formals = formals_,
                             !.cells[s3.val].body = body_,
                             !.cells[s3.val].env = env])))


(***************************************************************************)
(* Built-in procedures.  Each receives the caller's env and the            *)
(* unevaluated parameter list.                                             *)
(***************************************************************************)
atom_quote(s, env, params) == car(s, params)

atom_if(s, env, params) ==
    Then(nth_param_any(s, env, params, 1), LAMBDA s1 :
        IF ~Live(s1, s1.val) THEN UB(s1)                         \* test->type
        ELSE IF IsFalseCell(s1, s1.val)
        THEN Then(cdr(s1, params), LAMBDA s2 :
             Then(cdr(s2, s2.val), LAMBDA s3 :                   \* alternate
                 IF s3.val = NULL THEN Return(s3, s1.val)
                 ELSE Then(car(s3, s3.val), LAMBDA s4 :
                      IF s4.val = NULL THEN Return(s4, s1.val)
                      ELSE eval(s4, env, s4.val))))
        ELSE Then(cadr(s1, params), LAMBDA s2 : eval(s2, env, s2.val)))

atom_set_b(s, env, params) ==
    Then(car(s, params), LAMBDA s1 :                             \* variable
        IF ~Live(s1, s1.val) THEN UB(s1)                         \* variable->type
        ELSE Then(type_check(s1, "TYPE_SYMBOL", s1.cells[s1.val].type), LAMBDA s2 :
             Then(cadr(s2, params), LAMBDA s3 :
             Then(eval(s3, env, s3.val), LAMBDA s4 :             \* expression
                 Return(environment_set(s4, env, s4.cells[s1.val].symbol, s4.val),
                        s4.val)))))

\* the inner loop of atom_cond over the expressions of the chosen clause
RECURSIVE cond_body(_, _, _, _)
cond_body(s, env, expr, last_result) ==
    IF expr = NULL THEN Return(s, last_result)
    ELSE Then(car(s, expr), LAMBDA s1 :
         Then(eval(s1, env, s1.val), LAMBDA s2 :
         Then(cdr(s2, expr), LAMBDA s3 :
             cond_body(s3, env, s3.val, s2.val))))

\* for (expr = cdr(test); ...) of the clause `test`
cond_clause(s, env, test) ==
    Then(cdr(s, test), LAMBDA s1 : cond_body(s1, env, s1.val, NULL))

RECURSIVE atom_cond(_, _, _)
atom_cond(s, env, clause) ==
    IF clause = NULL THEN Return(s, make_boolean(FALSE))
    ELSE Then(car(s, clause), LAMBDA s1 :                        \* test
         Then(car(s1, s1.val), LAMBDA s2 :                       \* t
            IF ~Live(s2, s2.val) THEN UB(s2)                     \* t->type
            ELSE IF s2.cells[s2.val].type = "TYPE_SYMBOL"
                    /\ s2.cells[s2.val].symbol = "else"
            THEN cond_clause(s2, env, s1.val)
            ELSE Then(eval(s2, env, s2.val), LAMBDA s3 :         \* result
                 IF ~Live(s3, s3.val) THEN UB(s3)                \* result->type
                 ELSE IF IsFalseCell(s3, s3.val)
                 THEN Then(cdr(s3, clause), LAMBDA s4 : atom_cond(s4, env, s4.val))
                 ELSE cond_clause(s3, env, s1.val))))

\* the for loop of atom_and from `cell` on
RECURSIVE and_loop(_, _, _, _)
and_loop(s, env, cell, last_result) ==
    IF cell = NULL THEN Return(s, last_result)
    ELSE Then(car(s, cell), LAMBDA s1 :
         Then(eval(s1, env, s1.val), LAMBDA s2 :
             IF ~Live(s2, s2.val) THEN UB(s2)                    \* is_false(NULL)
             ELSE IF IsFalseCell(s2, s2.val) THEN s2
             ELSE Then(cdr(s2, cell), LAMBDA s3 :
                      and_loop(s3, env, s3.val, s2.val))))

\* car(params) is taken first: with no argument params is NULL
atom_and(s, env, params) ==
    Then(car(s, params), LAMBDA s1 :
        IF s1.val = NULL THEN signal_error(s1)
        ELSE and_loop(s1, env, params, NULL))

RECURSIVE or_loop(_, _, _)
or_loop(s, env, cell) ==
    IF cell = NULL THEN Return(s, make_boolean(FALSE))
    ELSE Then(car(s, cell), LAMBDA s1 :
         Then(eval(s1, env, s1.val), LAMBDA s2 :
             IF ~Live(s2, s2.val) THEN UB(s2)                    \* is_false(NULL)
             ELSE IF ~IsFalseCell(s2, s2.val) THEN s2
             ELSE Then(cdr(s2, cell), LAMBDA s3 : or_loop(s3, env, s3.val))))

atom_or(s, env, params) ==
    Then(car(s, params), LAMBDA s1 :
        IF s1.val = NULL THEN signal_error(s1)
        ELSE or_loop(s1, env, params))

atom_not(s, env, params) ==
    Then(car(s, params), LAMBDA s1 :
    Then(eval(s1, env, s1.val), LAMBDA s2 :                      \* obj
        IF ~Live(s2, s2.val) THEN UB(s2)                         \* obj->type
        ELSE Return(s2, make_boolean(IsFalseCell(s2, s2.val)))))

\* the binding loop of let_helper
RECURSIVE let_bindings(_, _, _, _)
let_bindings(s, target, child, b) ==
    IF b = NULL THEN s
    ELSE Then(car(s, b), LAMBDA s1 :                             \* pair
         Then(car(s1, s1.val), LAMBDA s2 :                       \* symbol
            IF ~Live(s2, s2.val) THEN UB(s2)                     \* symbol->type
            ELSE Then(type_check(s2, "TYPE_SYMBOL", s2.cells[s2.val].type), LAMBDA s3 :
                 Then(cadr(s3, s1.val), LAMBDA s4 :
                 Then(eval(s4, target, s4.val), LAMBDA s5 :      \* init
                 Then(environment_define(s5, child, s5.cells[s2.val].symbol, s5.val),
                      LAMBDA s6 :
                 Then(cdr(s6, b), LAMBDA s7 :
                     let_bindings(s7, target, child, s7.val))))))))

\* the body loops of let_helper and atom_begin
RECURSIVE eval_sequence(_, _, _, _)
eval_sequence(s, env, b, last) ==
    IF b = NULL THEN Return(s, last)
    ELSE Then(car(s, b), LAMBDA s1 :
         Then(eval(s1, env, s1.val), LAMBDA s2 :
         Then(cdr(s2, b), LAMBDA s3 :
             eval_sequence(s3, env, s3.val, s2.val))))

\* let_helper once the child frame exists
let_body(s, env, child, star, bindings, body_) ==
    Then(let_bindings(s, IF star THEN child ELSE env, child, bindings), LAMBDA s1 :
        eval_sequence(s1, child, body_, NULL))

let_helper(s, env, params, star) ==
    Then(car(s, params), LAMBDA s1 :                             \* bindings
    Then(cdr(s1, params), LAMBDA s2 :                            \* body
        IF s2.val = NULL THEN signal_error(s2)
        ELSE Then(create_environment(s2, env), LAMBDA s3 :
                 let_body(s3, env, s3.val, star, s1.val, s2.val))))

atom_let(s, env, params) == let_helper(s, env, params, FALSE)

atom_let_s(s, env, params) == let_helper(s, env, params, TRUE)

atom_begin(s, env, params) == eval_sequence(s, env, params, NULL)

\* atom_define after the switch: s.val is the value
define_variable(s, env, variable) ==
    IF (variable = NULL \/ s.val = NULL) /\ ~s.ndebug
    THEN AssertFailed(s)                                         \* assert(variable && value)
    ELSE IF ~Live(s, variable) THEN UB(s)                        \* variable->type
    ELSE Then(type_check(s, "TYPE_SYMBOL", s.cells[variable].type), LAMBDA s1 :
             Return(environment_define(s1, env, s1.cells[variable].symbol, s.val),
                    make_boolean(FALSE)))

atom_define(s, env, params) ==
    Then(car(s, params), LAMBDA s1 :                             \* first
        IF ~Live(s1, s1.val) THEN UB(s1)                         \* first->type
        ELSE IF s1.cells[s1.val].type = "TYPE_SYMBOL"
        THEN Then(cadr(s1, params), LAMBDA s2 :
             Then(eval(s2, env, s2.val), LAMBDA s3 :
                 define_variable(s3, env, s1.val)))
        ELSE IF s1.cells[s1.val].type = "TYPE_PAIR"
        THEN Then(cdr(s1, params), LAMBDA s2 :                   \* body
             Then(make_procedure(s2, env, s1.cells[s1.val].cdr, s2.val), LAMBDA s3 :
                 define_variable(s3, env, s1.cells[s1.val].car)))
        ELSE signal_error(s1))

atom_lambda(s, env, params) ==
    Then(car(s, params), LAMBDA s1 :
    Then(cdr(s1, params), LAMBDA s2 :
        make_procedure(s2, env, s1.val, s2.val)))

atom_error(s, env, params) ==
    Then(nth_param_any(s, env, params, 1), LAMBDA s1 :
        IF ~Live(s1, s1.val) THEN UB(s1)                         \* message->type
        ELSE signal_error(s1))

atom_cons(s, env, params) ==
    Then(nth_param_any(s, env, params, 1), LAMBDA s1 :
    Then(nth_param_any(s1, env, params, 2), LAMBDA s2 :
        cons(s2, s1.val, s2.val)))

atom_car(s, env, params) ==
    Then(nth_param(s, env, params, 1, "TYPE_PAIR"), LAMBDA s1 : car(s1, s1.val))

atom_cdr(s, env, params) ==
    Then(nth_param(s, env, params, 1, "TYPE_PAIR"), LAMBDA s1 : cdr(s1, s1.val))

\* the for (;;) of atom_list: no exit; once params is NULL, car(params)
\* reads through it.  `result` is never advanced.
RECURSIVE list_loop(_, _, _, _)
list_loop(s, env, params, result_) ==
    IF s.fuel = 0 THEN TimedOut(s)
    ELSE Then(car(Tick(s), params), LAMBDA s1 :
         Then(eval(s1, env, s1.val), LAMBDA s2 :
         Then(cons([s2 EXCEPT !.cells[result_].car = s2.val], NULL, NULL), LAMBDA s3 :
         Then(cdr([s3 EXCEPT !.cells[result_].cdr = s3.val], params), LAMBDA s4 :
             list_loop(s4, env, s4.val, result_)))))

atom_list(s, env, params) ==
    Then(cons(s, NULL, NULL), LAMBDA s1 : list_loop(s1, env, params, s1.val))

\* the for loop of atom_length: `length` starts at 1
RECURSIVE length_loop(_, _, _)
length_loop(s, list, length) ==
    IF list = NULL THEN make_number(s, length)
    ELSE IF s.fuel = 0 THEN TimedOut(s)
    ELSE IF ~Live(s, list) THEN UB(s)                            \* list->type
    ELSE Then(type_check(Tick(s), "TYPE_PAIR", s.cells[list].type), LAMBDA s1 :
             length_loop(s1, s1.cells[list].cdr, length + 1))

atom_length(s, env, params) ==
    Then(car(s, params), LAMBDA s1 :
    Then(eval(s1, env, s1.val), LAMBDA s2 : length_loop(s2, s2.val, 1)))

\* a copy of the first pair of `list` only: the copy shares the rest
duplicate(s, list) ==
    IF list = NULL THEN Return(s, NULL)
    ELSE IF ~Live(s, list) THEN UB(s)
    ELSE IF s.cells[list].type # "TYPE_PAIR" /\ ~s.ndebug THEN AssertFailed(s)
    ELSE Then(car(s, list), LAMBDA s1 :
         Then(cdr(s1, list), LAMBDA s2 : cons(s2, s1.val, s2.val)))

\* the for (;;) of append_destructive: b is stored into the cdr of the last
\* pair of a
RECURSIVE append_loop(_, _, _, _)
append_loop(s, a, current, b) ==
    IF s.fuel = 0 THEN TimedOut(s)
    ELSE Then(cdr(Tick(s), current), LAMBDA s1 :
             IF s1.val = NULL
             THEN IF IsType(s1, current, "TYPE_PAIR")            \* set_cdr
                  THEN Return([s1 EXCEPT !.cells[current].cdr = b], a)
                  ELSE BadPair(s1, current)
             ELSE append_loop(s1, a, s1.val, b))

append_destructive(s, a, b) ==
    IF a = NULL THEN Return(s, b) ELSE append_loop(s, a, a, b)

\* the for (n = 1;; n++) of atom_append
RECURSIVE append_params(_, _, _, _, _)
append_params(s, env, params, n, result_) ==
    Then(nth_param_optional(s, env, params, n, "TYPE_PAIR"), LAMBDA s1 :
        IF s1.val = NULL THEN Return(s1, result_)
        ELSE Then(duplicate(s1, s1.val), LAMBDA s2 :
             Then(append_destructive(s2, result_, s2.val), LAMBDA s3 :
                 append_params(s3, env, params, n + 1, s3.val))))

atom_append(s, env, params) == append_params(s, env, params, 1, NULL)

\* the assert of symbol_is; without it strcmp reads whatever the cell holds
symbol_is(s, symbol_) ==
    IF IsType(s, symbol_, "TYPE_SYMBOL") THEN s
    ELSE IF (symbol_ = NULL \/ Live(s, symbol_)) /\ ~s.ndebug THEN AssertFailed(s)
    ELSE UB(s)

RECURSIVE quasiquote_helper(_, _, _)

\* return cons(env, new_head, quasiquote_helper(env, rest))
quasiquote_cons(s, env, new_head, rest) ==
    Then(quasiquote_helper(s, env, rest), LAMBDA s1 : cons(s1, new_head, s1.val))

\* the element `head` of the template is a pair: s.val is car(cdr(head))
quasiquote_unquote(s, env, operation, head, rest) ==
    IF s.cells[operation].symbol = "unquote"
    THEN Then(eval(s, env, s.val), LAMBDA s1 :
             quasiquote_cons(s1, env, s1.val, rest))
    ELSE Then(eval(s, env, s.val), LAMBDA s1 :                   \* new_head
         IF s1.val # NULL /\ ~Live(s1, s1.val) THEN UB(s1)
         ELSE IF s1.val # NULL /\ s1.cells[s1.val].type # "TYPE_PAIR" /\ ~s1.ndebug
         THEN AssertFailed(s1)
         ELSE Then(quasiquote_helper(s1, env, rest), LAMBDA s2 :
                  append_destructive(s2, s1.val, s2.val)))

quasiquote_helper(s, env, list) ==
    IF list = NULL THEN Return(s, NULL)
    ELSE IF ~Live(s, list) THEN UB(s)                            \* list->type
    ELSE IF s.cells[list].type # "TYPE_PAIR" THEN Return(s, list)
    ELSE IF s.cells[list].car = NULL THEN Return(s, NULL)        \* if (!head)
    ELSE IF ~Live(s, s.cells[list].car) THEN UB(s)               \* head->type
    ELSE IF s.cells[s.cells[list].car].type # "TYPE_PAIR"
    THEN quasiquote_cons(s, env, s.cells[list].car, s.cells[list].cdr)
    ELSE Then(symbol_is(s, s.cells[s.cells[list].car].car), LAMBDA s1 :
         IF s1.cells[s1.cells[s1.cells[list].car].car].symbol
               \in {"unquote", "unquote-splicing"}
         THEN Then(cadr(s1, s1.cells[list].car), LAMBDA s2 :
                  quasiquote_unquote(s2, env, s1.cells[s1.cells[list].car].car,
                                     s1.cells[list].car, s1.cells[list].cdr))
         ELSE quasiquote_cons(s1, env, s1.cells[list].car, s1.cells[list].cdr))

atom_quasiquote(s, env, params) ==
    Then(car(s, params), LAMBDA s1 : quasiquote_helper(s1, env, s1.val))

\* make_input_port / make_output_port; a FILE* is held by the name of its
\* stream.  atom_current_input_port passes cont->input, which is stdin, and
\* atom_current_output_port cont->output, which is stdout.
make_io_port(s, type_, port_) ==
    LET s1 == make_cell(s, type_)
    IN  [s1 EXCEPT !.cells[s1.val].port = port_]

\* atom_close_input_port / atom_close_output_port: fclose(port->data.input_port)
\* whatever the stream is; fclose on a stream that is closed already is
\* undefined
atom_close_port(s, env, params, type_) ==
    Then(nth_param(s, env, params, 1, type_), LAMBDA s1 :
        IF \E i \in DOMAIN s1.closed : s1.closed[i] = s1.cells[s1.val].port
        THEN UB([s1 EXCEPT !.closed = Append(@, s1.cells[s1.val].port)])
        ELSE Return([s1 EXCEPT !.closed = Append(@, s1.cells[s1.val].port)],
                    make_boolean(FALSE)))

\* plus_mul_helper with is_add: the for loop from z on
RECURSIVE plus_loop(_, _, _, _)
plus_loop(s, env, z, result_) ==
    IF z = NULL THEN make_number(s, result_)
    ELSE Then(car(s, z), LAMBDA s1 :                             \* n
         IF s1.val = NULL /\ ~s1.ndebug THEN AssertFailed(s1)    \* assert(n)
         ELSE Then(eval(s1, env, s1.val), LAMBDA s2 :            \* value
              IF ~Live(s2, s2.val) THEN UB(s2)                   \* value->type
              ELSE Then(type_check(s2, "TYPE_NUMBER", s2.cells[s2.val].type), LAMBDA s3 :
                   Then(cdr(s3, z), LAMBDA s4 :
                       plus_loop(s4, env, s4.val, result_ + s4.cells[s2.val].number)))))

atom_plus(s, env, params) == plus_loop(s, env, params, 0)

\* nth_param_integer: every number of the model is an integer, and val is
\* left pointing at the number cell
nth_param_integer(s, env, params, n) == nth_param(s, env, params, n, "TYPE_NUMBER")

\* if (k < 0 || k < (int)strlen(string)) signal_error(...);
\* return make_character(env, string[k]);
\* string[strlen] is the terminating NUL, anything beyond it is outside the
\* buffer
atom_string_ref(s, env, params) ==
    Then(nth_param(s, env, params, 1, "TYPE_STRING"), LAMBDA s1 :
    Then(nth_param_integer(s1, env, params, 2), LAMBDA s2 :
        IF s2.cells[s2.val].number < Len(Chars(s2.cells[s1.val].string))
        THEN signal_error(s2)
        ELSE IF s2.cells[s2.val].number = Len(Chars(s2.cells[s1.val].string))
        THEN make_character(s2, NUL)
        ELSE UB(s2)))


(***************************************************************************)
(* print_rec / print: the walk the driver makes over a parsed datum and    *)
(* over each result.  Only what the walk reads and where it stops is       *)
(* modelled here.                                                          *)
(***************************************************************************)
RECURSIVE print_rec(_, _), print_vector(_, _, _)

print_vector(s, data, i) ==
    IF ~Ok(s) \/ i > Len(data) THEN s
    ELSE print_vector(print_rec(s, data[i]), data, i + 1)

print_rec(s, cell) ==
    IF ~Ok(s) \/ cell = NULL THEN s
    ELSE IF s.fuel = 0 THEN TimedOut(s)
    ELSE IF ~Live(s, cell) THEN UB(s)
    ELSE LET c == s.cells[cell]
             s1 == Tick(s)
         IN  CASE c.type = "TYPE_PAIR" ->
                    LET s2 == print_rec(s1, c.car)
                    IN  IF ~Ok(s2) \/ c.cdr = NULL THEN s2
                        ELSE IF ~Live(s2, c.cdr) THEN UB(s2)     \* c->type
                        ELSE print_rec(s2, c.cdr)
               [] c.type = "TYPE_VECTOR" -> print_vector(s1, c.vector, 1)
               [] c.type = "TYPE_PROCEDURE" ->                   \* default: assert(false)
                    IF s.ndebug THEN s1 ELSE AssertFailed(s1)
               [] OTHER -> s1

print(s, cell) == print_rec(s, cell)

(***************************************************************************)
(* Input texts, as the token sequences read_token produces for them.       *)
(***************************************************************************)
RECURSIVE Flatten(_)
Flatten(ss) == IF ss = << >> THEN << >> ELSE Head(ss) \o Flatten(Tail(ss))

\* ( d1 ... dn )
L(ds) == << LP >> \o Flatten(ds) \o << RP >>

I(str) == << Id(str) >>

N(n) == << Nm(n) >>

S(str) == << Str(str) >>

B(b) == << Bool(b) >>

\* 'd
Q(d) == << QT >> \o d


\* the empty list as a value: (cdr '(1)), the cdr of a one-element list
NullExpr == L(<< I("cdr"), Q(L(<< N(1) >>)) >>)

\* the texts given to atom_api_load, by name
Texts ==
    [
     \* (define (f a) (let ((b 2)) (lambda (c) a)))  (define g (f 1))
     closure |->
         L(<< I("define"), L(<< I("f"), I("a") >>),
         L(<< I("let"), L(<< L(<< I("b"), N(2) >>) >>),
         L(<< I("lambda"), L(<< I("c") >>), I("a") >>) >>) >>)
         \o L(<< I("define"), I("g"), L(<< I("f"), N(1) >>) >>),
     \* (g 7)
     call |->
         L(<< I("g"), N(7) >>),
     \* (load "a.scm")
     load |->
         L(<< I("load"), S("a.scm") >>),
     \* (begin (load "a.scm") (define w 3))
     loadthen |->
         L(<< I("begin"), L(<< I("load"), S("a.scm") >>),
         L(<< I("define"), I("w"), N(3) >>) >>),
     \* u  (define z 1)
     err |->
         I("u") \o L(<< I("define"), I("z"), N(1) >>),
     \* (define x 5)
     def |->
         L(<< I("define"), I("x"), N(5) >>),
     \* (set! u 1)
     setu |->
         L(<< I("set!"), I("u"), N(1) >>),
     \* (define x 1)  (define (h x) (set! x 2))  (h 99)  x
     scope |->
         L(<< I("define"), I("x"), N(1) >>)
         \o L(<< I("define"), L(<< I("h"), I("x") >>), L(<< I("set!"), I("x"), N(2) >>) >>)
         \o L(<< I("h"), N(99) >>)
         \o I("x"),
     \* (set! x 7)  x
     setx |->
         L(<< I("set!"), I("x"), N(7) >>) \o I("x"),
     \* ((lambda (x) x) 5)
     lamid |->
         L(<< L(<< I("lambda"), L(<< I("x") >>), I("x") >>), N(5) >>),
     \* ((lambda (x) ((lambda (x) x) 1)) 2)
     lamnest |->
         L(<< L(<< I("lambda"), L(<< I("x") >>),
         L(<< L(<< I("lambda"), L(<< I("x") >>), I("x") >>), N(1) >>) >>),
         N(2) >>),
     \* (define id (lambda (x) x))  (id 5)
     id |->
         L(<< I("define"), I("id"), L(<< I("lambda"), L(<< I("x") >>), I("x") >>) >>)
         \o L(<< I("id"), N(5) >>),
     \* (define (outer x) (id 1))  (outer 2)
     idnest |->
         L(<< I("define"), L(<< I("outer"), I("x") >>), L(<< I("id"), N(1) >>) >>)
         \o L(<< I("outer"), N(2) >>),
     \* (and)
     and0 |->
         L(<< I("and") >>),
     \* (or)
     or0 |->
         L(<< I("or") >>),
     \* (and 1 2)
     and2 |->
         L(<< I("and"), N(1), N(2) >>),
     \* (or #f 3)
     or2 |->
         L(<< I("or"), B(FALSE), N(3) >>),
     \* (if 0 1 2)
     if0 |->
         L(<< I("if"), N(0), N(1), N(2) >>),
     \* (if #f 1 2)
     iff |->
         L(<< I("if"), B(FALSE), N(1), N(2) >>),
     \* (if (cdr '(1)) 1 2)
     ifnull |->
         L(<< I("if"), NullExpr, N(1), N(2) >>),
     \* (cond ((cdr '(1)) 1) (else 2))
     condnull |->
         L(<< I("cond"), L(<< NullExpr, N(1) >>), L(<< I("else"), N(2) >>) >>),
     \* (cond (0 1) (else 2))
     cond0 |->
         L(<< I("cond"), L(<< N(0), N(1) >>), L(<< I("else"), N(2) >>) >>),
     \* (and (cdr '(1)) 1)
     andnull |->
         L(<< I("and"), NullExpr, N(1) >>),
     \* (or (cdr '(1)) 1)
     ornull |->
         L(<< I("or"), NullExpr, N(1) >>),
     \* (not (cdr '(1)))
     notnull |->
         L(<< I("not"), NullExpr >>),
     \* (not 0)
     not0 |->
         L(<< I("not"), N(0) >>),
     \* (define (k a) a)
     sugar1 |->
         L(<< I("define"), L(<< I("k"), I("a") >>), I("a") >>),
     \* (define k (lambda (a) a))
     plain1 |->
         L(<< I("define"), I("k"), L(<< I("lambda"), L(<< I("a") >>), I("a") >>) >>),
     \* (define (k) 1)
     sugar0 |->
         L(<< I("define"), L(<< I("k") >>), N(1) >>),
     \* (define k (lambda () 1))
     plain0 |->
         L(<< I("define"), I("k"), L(<< I("lambda"), L(<< >>), N(1) >>) >>),
     \* (k 3)
     callk |->
         L(<< I("k"), N(3) >>),
     \* (list 1 2)
     list2 |->
         L(<< I("list"), N(1), N(2) >>),
     \* (list)
     list0 |->
         L(<< I("list") >>),
     \* (define l (list 1))  l
     list1 |->
         L(<< I("define"), I("l"), L(<< I("list"), N(1) >>) >>) \o I("l"),
     \* (string-ref "ab" 0)
     sref0 |->
         L(<< I("string-ref"), S("ab"), N(0) >>),
     \* (string-ref "ab" 1)
     sref1 |->
         L(<< I("string-ref"), S("ab"), N(1) >>),
     \* (string-ref "ab" 2)
     sref2 |->
         L(<< I("string-ref"), S("ab"), N(2) >>),
     \* (string-ref "ab" 3)
     sref3 |->
         L(<< I("string-ref"), S("ab"), N(3) >>),
     \* (length '(1 2))
     len2 |->
         L(<< I("length"), Q(L(<< N(1), N(2) >>)) >>),
     \* (length '(1))
     len1 |->
         L(<< I("length"), Q(L(<< N(1) >>)) >>),
     \* (length (cdr '(1)))
     len0 |->
         L(<< I("length"), NullExpr >>),
     \* (define xs '(1))  (define ys '(2))
     \* (define n (length (append xs ys)))
     \* (define m (+ (length xs) (length ys)))
     lenapp |->
         L(<< I("define"), I("xs"), Q(L(<< N(1) >>)) >>)
         \o L(<< I("define"), I("ys"), Q(L(<< N(2) >>)) >>)
         \o L(<< I("define"), I("n"),
                 L(<< I("length"), L(<< I("append"), I("xs"), I("ys") >>) >>) >>)
         \o L(<< I("define"), I("m"),
                 L(<< I("+"), L(<< I("length"), I("xs") >>),
                      L(<< I("length"), I("ys") >>) >>) >>),
     \* `(1 2)
     qq0 |->
         << BT >> \o L(<< N(1), N(2) >>),
     \* (define x 5)  `(1 ,x)
     qqu |->
         L(<< I("define"), I("x"), N(5) >>)
         \o << BT >> \o L(<< N(1), << CM >>, I("x") >>),
     \* (define l '(2 3))  `(1 ,@l 4)
     qqs |->
         L(<< I("define"), I("l"), Q(L(<< N(2), N(3) >>)) >>)
         \o << BT >> \o L(<< N(1), << CA >>, I("l"), N(4) >>),
     \* `(1 (2 3))
     qqn |->
         << BT >> \o L(<< N(1), L(<< N(2), N(3) >>) >>),
     \* (current-input-port)  (current-output-port)
     ports |->
         L(<< I("current-input-port") >>) \o L(<< I("current-output-port") >>),
     \* (close-input-port (current-input-port))
     closein |->
         L(<< I("close-input-port"), L(<< I("current-input-port") >>) >>),
     \* (close-output-port (current-output-port))
     closeout |->
         L(<< I("close-output-port"), L(<< I("current-output-port") >>) >>),
     \* (define (h x) x)  (define (g x) (h x))  (define (f x) (g x))  (f 1)
     chain |->
         L(<< I("define"), L(<< I("h"), I("x") >>), I("x") >>)
         \o L(<< I("define"), L(<< I("g"), I("x") >>), L(<< I("h"), I("x") >>) >>)
         \o L(<< I("define"), L(<< I("f"), I("x") >>), L(<< I("g"), I("x") >>) >>)
         \o L(<< I("f"), N(1) >>),
     \* (define (e x) (f x) (f x))  (e 1)
     chain2 |->
         L(<< I("define"), L(<< I("e"), I("x") >>),
              L(<< I("f"), I("x") >>), L(<< I("f"), I("x") >>) >>)
         \o L(<< I("e"), N(1) >>),
     \* )
     sxclose |->
         << RP >>,
     \* ( . 1)
     sxdot |->
         << LP, DOT, Nm(1), RP >>,
     \* (1 . 2 3)
     sxdot2 |->
         << LP, Nm(1), DOT, Nm(2), Nm(3), RP >>,
     \* (1 . 2
     sxdoteof |->
         << LP, Nm(1), DOT, Nm(2) >>,
     \* '
     sxquote |->
         << QT >>,
     \* (')
     sxquote2 |->
         << LP, QT, RP >>,
     \* (1
     sxlist |->
         << LP, Nm(1) >>,
     \* #(1
     sxvector |->
         << VS, Nm(1) >>,
     \* #(1 2) 3
     vec2 |->
         << VS, Nm(1), Nm(2), RP, Nm(3) >>,
     \* '(#(1) 2)
     vecin |->
         Q(L(<< << VS, Nm(1), RP >>, N(2) >>)),
     \* (define (f x y) x)  (f 1)
     few |->
         L(<< I("define"), L(<< I("f"), I("x"), I("y") >>), I("x") >>)
         \o L(<< I("f"), N(1) >>),
     \* (define (g x) x)  (g)
     few0 |->
         L(<< I("define"), L(<< I("g"), I("x") >>), I("x") >>)
         \o L(<< I("g") >>),
     \* (define (g x) x)  (g 1 2)
     more |->
         L(<< I("define"), L(<< I("g"), I("x") >>), I("x") >>)
         \o L(<< I("g"), N(1), N(2) >>),
     \* (car (cdr '(1)))
     carnull |->
         L(<< I("car"), NullExpr >>),
     \* (cons 1 (cdr '(1)))
     consnull |->
         L(<< I("cons"), N(1), NullExpr >>),
     \* (car)
     carnone |->
         L(<< I("car") >>),
     \* (car '(1 2))
     carok |->
         L(<< I("car"), Q(L(<< N(1), N(2) >>)) >>),
     \* (load "b.scm")  (define w 3)
     loaderr |->
         L(<< I("load"), S("b.scm") >>) \o L(<< I("define"), I("w"), N(3) >>),
     \* (load "c.scm")  (define w 3)
     loadnest |->
         L(<< I("load"), S("c.scm") >>) \o L(<< I("define"), I("w"), N(3) >>),
     \* (load "zz.scm")  (define w 3)
     loadmiss |->
         L(<< I("load"), S("zz.scm") >>) \o L(<< I("define"), I("w"), N(3) >>),
     \* (define xs '(1 2))  (define ys '(3))  (define zs (append xs ys))
     appkeep |->
         L(<< I("define"), I("xs"), Q(L(<< N(1), N(2) >>)) >>)
         \o L(<< I("define"), I("ys"), Q(L(<< N(3) >>)) >>)
         \o L(<< I("define"), I("zs"), L(<< I("append"), I("xs"), I("ys") >>) >>),
     \* (define xs '(1))  (define ys '(3))  (define zs (append xs ys))
     app1 |->
         L(<< I("define"), I("xs"), Q(L(<< N(1) >>)) >>)
         \o L(<< I("define"), I("ys"), Q(L(<< N(3) >>)) >>)
         \o L(<< I("define"), I("zs"), L(<< I("append"), I("xs"), I("ys") >>) >>),
     \* (define xs '(1 2))  (define zs `(,@xs 3))
     splkeep |->
         L(<< I("define"), I("xs"), Q(L(<< N(1), N(2) >>)) >>)
         \o L(<< I("define"), I("zs"),
                 << BT >> \o L(<< << CA >>, I("xs"), N(3) >>) >>),
     \* (define xs '(1))  (define zs `(0 ,@xs))
     spl1 |->
         L(<< I("define"), I("xs"), Q(L(<< N(1) >>)) >>)
         \o L(<< I("define"), I("zs"),
                 << BT >> \o L(<< N(0), << CA >>, I("xs") >>) >>),
     \* (open-input-file "a.scm")
     openonly |->
         L(<< I("open-input-file"), S("a.scm") >>),
     \* (define p (open-output-file "a.scm"))  (define q (open-input-file "b.scm"))
     opendef |->
         L(<< I("define"), I("p"), L(<< I("open-output-file"), S("a.scm") >>) >>)
         \o L(<< I("define"), I("q"), L(<< I("open-input-file"), S("b.scm") >>) >>),
     \* (define p (open-input-file "a.scm"))  (close-input-port p)
     openclose |->
         L(<< I("define"), I("p"), L(<< I("open-input-file"), S("a.scm") >>) >>)
         \o L(<< I("close-input-port"), I("p") >>),
     \* (define p (open-output-file "a.scm"))  (close-output-port p)
     \* (close-output-port p)
     closetwice |->
         L(<< I("define"), I("p"), L(<< I("open-output-file"), S("a.scm") >>) >>)
         \o L(<< I("close-output-port"), I("p") >>)
         \o L(<< I("close-output-port"), I("p") >>),
     \* (close-input-port (open-input-file "a.scm"))
     closetemp |->
         L(<< I("close-input-port"), L(<< I("open-input-file"), S("a.scm") >>) >>),
     \* (open-input-file "zz.scm")
     opennone |->
         L(<< I("open-input-file"), S("zz.scm") >>),
     \* #( . )
     vecdot |->
         << VS, DOT, RP >>,
     \* #(1 . 2)
     vecdot2 |->
         << VS, Nm(1), DOT, Nm(2), RP >>,
     \* #(#(1) (2) '3)
     vecnest |->
         << VS, VS, Nm(1), RP, LP, Nm(2), RP, QT, Nm(3), RP >>,
     \* #(')
     vecquote |->
         << VS, QT, RP >>,
     \* car
     prbuiltin |->
         I("car"),
     \* (lambda (x) x)
     prlambda |->
         L(<< I("lambda"), L(<< I("x") >>), I("x") >>),
     \* (cdr '(1))
     prnull |->
         NullExpr,
     \* '#(1 2)
     prvector |->
         Q(<< VS, Nm(1), Nm(2), RP >>)
    ]

TextNames ==
    [gc |-> {"closure", "call", "load", "loadthen", "err", "def"},
     scope |-> {"setu", "scope", "setx", "def", "err"},
     lambda |-> {"lamid", "lamnest", "id", "idnest", "def"},
     truth |-> {"and0", "or0", "and2", "or2", "if0", "iff", "ifnull",
                "condnull", "cond0", "andnull", "ornull", "notnull", "not0"},
     define |-> {"sugar1", "plain1", "sugar0", "plain0", "callk",
                 "list2", "list0", "list1"},
     strings |-> {"sref0", "sref1", "sref2", "sref3"},
     lists |-> {"len2", "len1", "len0", "lenapp"},
     quasi |-> {"qq0", "qqu", "qqs", "qqn"},
     io |-> {"ports", "closein", "closeout", "def"},
     tail |-> {"chain", "chain2", "def"},
     syntax |-> {"sxclose", "sxdot", "sxdot2", "sxdoteof", "sxquote",
                 "sxquote2", "sxlist", "sxvector"},
     vector |-> {"vec2", "vecin", "def"},
     arity |-> {"few", "few0", "more", "carnull", "consnull", "carnone", "carok"},
     nested |-> {"loaderr", "loadnest", "loadmiss", "load", "err"},
     shared |-> {"appkeep", "app1", "splkeep", "spl1", "def"},
     files |-> {"openonly", "opendef", "openclose", "closetwice", "closetemp", "opennone"},
     parser |-> {"vecdot", "vecdot2", "vecnest", "vecquote", "sxdot", "sxdot2", "sxdoteof", "sxquote2"},
     printed |-> {"prbuiltin", "prlambda", "prnull", "prvector", "ports", "def"}]

Suites == DOMAIN TextNames

\* the files fopen() finds, with their contents; a.scm is (define y 2),
\* b.scm is (car), which signals an error; c.scm is (load "b.scm") (define v 1)
Files ==
    [a |-> L(<< I("define"), I("y"), N(2) >>),
     b |-> L(<< I("car") >>),
     c |-> L(<< I("load"), S("b.scm") >>) \o L(<< I("define"), I("v"), N(1) >>)]

FileKey(name) ==
    CASE name = "a.scm" -> "a"
      [] name = "b.scm" -> "b"
      [] name = "c.scm" -> "c"
      [] OTHER -> ""

\* the streams fopen hands out, in the order of the calls
FileHandles == << "file1", "file2", "file3" >>

\* fopen fails when this many streams are open
FOPEN_MAX == Len(FileHandles)

\* the number of streams fopen has handed out
Opens(s) ==
    Cardinality({c \in DOMAIN s.cells :
                    \E i \in DOMAIN FileHandles : s.cells[c].port = FileHandles[i]})

\* atom_open_input_file / atom_open_output_file: file_open_helper takes the
\* name from the first parameter and calls fopen(f, "r") whatever the mode,
\* and the stream goes into a new port cell
atom_open_file(s, env, params, type_) ==
    Then(nth_param(s, env, params, 1, "TYPE_STRING"), LAMBDA s1 :
        IF FileKey(s1.cells[s1.val].string) = "" \/ Opens(s1) >= FOPEN_MAX
        THEN signal_error(s1)                                    \* if (!file)
        ELSE make_io_port(s1, type_, FileHandles[Opens(s1) + 1]))


(***************************************************************************)
(* Lexer: struct Input and the read_ functions.  The text is s.data, a     *)
(* sequence of characters with the terminating NUL left implicit, and the  *)
(* pointer Input::data is the index s.pos into it.  The tokens written are *)
(* appended to s.tokens, whose length is TokenList::next while the text is *)
(* tokenized (start_parse then moves it to TokenList::length).             *)
(***************************************************************************)
\* Input::get: *data
input_get(s) == IF s.pos <= Len(s.data) THEN s.data[s.pos] ELSE NUL

\* Input::next: assert(*data); data++.  Past the NUL the pointer leaves the
\* text, and the get() that follows reads whatever lies behind it.
input_next(s) ==
    IF input_get(s) = NUL
    THEN IF s.ndebug THEN UB(s) ELSE AssertFailed(s)
    ELSE [s EXCEPT !.pos = @ + 1]

syntax_error(s) == signal_error(s)

RECURSIVE skip_whitespace(_), skip_comment(_)

\* the inner for of skip_whitespace: the rest of a comment, then on with
\* the outer loop, whose c = input.next() steps over the newline
skip_comment(s) ==
    Then(input_next(s), LAMBDA s1 :
        IF input_get(s1) = NUL THEN s1
        ELSE IF input_get(s1) = "\n" THEN Then(input_next(s1), skip_whitespace)
        ELSE skip_comment(s1))

skip_whitespace(s) ==
    IF input_get(s) \in {"\n", " ", "\t"} THEN Then(input_next(s), skip_whitespace)
    ELSE IF input_get(s) = ";" THEN skip_comment(s)
    ELSE s

DigitChars == << "0", "1", "2", "3", "4", "5", "6", "7", "8", "9" >>

is_digit(c) == \E i \in DOMAIN DigitChars : DigitChars[i] = c

char_to_double(c) == (CHOOSE i \in DOMAIN DigitChars : DigitChars[i] = c) - 1

\* is_letter (isalpha, for the lower-case letters, the only ones the texts
\* use) or is_special_initial
is_initial(c) ==
    \/ c \in {"a", "b", "c", "d", "e", "f", "g", "h", "i", "j", "k", "l", "m",
              "n", "o", "p", "q", "r", "s", "t", "u", "v", "w", "x", "y", "z"}
    \/ c \in {"!", "$", "%", "&", "*", "/", ":", "<", "=", ">", "?", "^", "_", "~"}

is_delimeter(c) == c \in {NUL, " ", "\n", "\t", "\"", "(", ")", ";"}

\* is_initial, is_digit or is_special_subsequent
is_subsequent(c) == is_initial(c) \/ is_digit(c) \/ c \in {"+", "-", ".", "@"}

\* buffer_copy_and_reset: the C string the buffer spells
Intern(buffer) ==
    IF buffer = << >> THEN ""
    ELSE IF Len(buffer) = 1 THEN buffer[1]
    ELSE IF \E w \in DOMAIN Spelling : Spelling[w] = buffer
    THEN CHOOSE w \in DOMAIN Spelling : Spelling[w] = buffer
    ELSE buffer

\* tokens.init(env, 1000) in atom_api_load: malloc(size * sizeof(Token))
TokenListLength == 1000

\* TokenList::add_basic and the other add_ functions: tokens[next] is written
\* and next incremented; next is the number of tokens written so far.  No
\* add_ function compares next with length, and a write past the malloc'd
\* block is undefined.
add_basic(s, tk) ==
    IF Len(s.tokens) >= TokenListLength
    THEN UB([s EXCEPT !.tokens = Append(@, tk)])
    ELSE [s EXCEPT !.tokens = Append(@, tk)]

\* input.next(); input.tokens->add_...();
add_after_next(s, tk) == Then(input_next(s), LAMBDA s1 : add_basic(s1, tk))

\* the if (input.next() != ...) syntax_error(...) lines of a character name
RECURSIVE expect_chars(_, _)
expect_chars(s, rest) ==
    IF rest = << >> THEN s
    ELSE Then(input_next(s), LAMBDA s1 :
             IF input_get(s1) # Head(rest) THEN syntax_error(s1)
             ELSE expect_chars(s1, Tail(rest)))

\* if (!is_delimeter(input.next())) syntax_error(...); add_character(c);
\* the end of a character name and the label `success`
add_delimited_character(s, c) ==
    Then(input_next(s), LAMBDA s1 :
        IF is_delimeter(input_get(s1)) THEN add_basic(s1, Chr(c))
        ELSE syntax_error(s1))

\* case 's' and case 'n' of read_character: c, then the name whose second
\* letter is Head(name) if that letter follows
read_named_character(s, c, name, value_) ==
    Then(input_next(s), LAMBDA s1 :
        IF input_get(s1) = Head(name)
        THEN Then(expect_chars(s1, Tail(name)), LAMBDA s2 :
                 add_delimited_character(s2, value_))
        ELSE add_delimited_character(s1, c))

read_character(s) ==
    IF input_get(s) = "s"
    THEN read_named_character(s, "s", << "p", "a", "c", "e" >>, " ")
    ELSE IF input_get(s) = "n"
    THEN read_named_character(s, "n", << "e", "w", "l", "i", "n", "e" >>, "\n")
    ELSE add_delimited_character(s, input_get(s))

\* the for (;;) of read_number, entered with accum = char_to_double(c)
RECURSIVE read_number(_, _)
read_number(s, accum) ==
    Then(input_next(s), LAMBDA s1 :
        IF ~is_digit(input_get(s1)) THEN add_basic(s1, Nm(accum))
        ELSE read_number(s1, accum * 10 + char_to_double(input_get(s1))))

\* the for (;;) of read_string, entered with an empty buffer; isprint fails
\* for NUL, newline and tab among the characters the texts use
RECURSIVE read_string(_, _)
read_string(s, buffer) ==
    Then(input_next(s), LAMBDA s1 :
        IF input_get(s1) = "\""
        THEN add_after_next(s1, Str(Intern(buffer)))
        ELSE IF input_get(s1) = "\\"
        THEN Then(input_next(s1), LAMBDA s2 :
                 IF input_get(s2) \in {"\"", "\\"}
                 THEN read_string(s2, Append(buffer, input_get(s2)))
                 ELSE syntax_error(s2))
        ELSE IF input_get(s1) \notin {NUL, "\n", "\t"}
        THEN read_string(s1, Append(buffer, input_get(s1)))
        ELSE syntax_error(s1))

RECURSIVE read_identifier_loop(_, _)
read_identifier_loop(s, buffer) ==
    Then(input_next(s), LAMBDA s1 :
        IF is_delimeter(input_get(s1)) THEN add_basic(s1, Id(Intern(buffer)))
        ELSE IF ~is_subsequent(input_get(s1)) THEN syntax_error(s1)
        ELSE read_identifier_loop(s1, Append(buffer, input_get(s1))))

read_identifier(s) ==
    IF is_initial(input_get(s)) THEN read_identifier_loop(s, << input_get(s) >>)
    ELSE IF input_get(s) \in {"+", "-"} THEN add_after_next(s, Id(input_get(s)))
    ELSE syntax_error(s)

\* case '#' of read_token, after c = input.next()
read_hash(s) ==
    CASE input_get(s) = "t" -> add_after_next(s, Bool(TRUE))
      [] input_get(s) = "f" -> add_after_next(s, Bool(FALSE))
      [] input_get(s) = "\\" -> Then(input_next(s), read_character)
      [] input_get(s) = "(" -> add_after_next(s, VS)
      [] OTHER -> syntax_error(s)

\* the character 0x60, which no string of this notation can hold
BACKQUOTE == "backquote"

read_token(s0) ==
    Then(skip_whitespace(s0), LAMBDA s :
        CASE input_get(s) = "(" -> add_after_next(s, LP)
          [] input_get(s) = ")" -> add_after_next(s, RP)
          [] input_get(s) = "'" -> add_after_next(s, QT)
          [] input_get(s) = BACKQUOTE -> add_after_next(s, BT)
          [] input_get(s) = "." -> add_after_next(s, DOT)
          [] input_get(s) = "," ->
                Then(input_next(s), LAMBDA s1 :
                    IF input_get(s1) = "@" THEN add_after_next(s1, CA)
                    ELSE add_basic(s1, CM))
          [] input_get(s) = "#" -> Then(input_next(s), read_hash)
          [] input_get(s) = "\"" -> read_string(s, << >>)
          [] input_get(s) = NUL -> s
          [] OTHER -> IF is_digit(input_get(s))
                      THEN read_number(s, char_to_double(input_get(s)))
                      ELSE read_identifier(s))

\* input.init(cont, data); tokens.init(env, 1000);
input_init(s, data_) ==
    [s EXCEPT !.data = data_, !.pos = 1, !.tokens = << >>, !.next = 0]

\* while (input.get()) read_token(input); tokens.start_parse();
RECURSIVE tokenize(_)
tokenize(s) ==
    IF input_get(s) = NUL THEN s ELSE Then(read_token(s), tokenize)


(***************************************************************************)
(* What print writes: the characters print_rec sends to the port for the   *)
(* cell at `cell` of the memory cs, with human = false (as `write` and the *)
(* driver call it).                                                        *)
(***************************************************************************)
\* "%lg" of a whole number below 10^6: its decimal digits
RECURSIVE number_output(_)
number_output(n) ==
    IF n < 10 THEN << DigitChars[n + 1] >>
    ELSE number_output(n \div 10) \o << DigitChars[(n % 10) + 1] >>

RECURSIVE print_rec_output(_, _, _), print_vector_output(_, _, _)

print_vector_output(cs, data, i) ==
    IF i > Len(data) THEN << >>
    ELSE (IF i > 1 THEN << " " >> ELSE << >>)
         \o print_rec_output(cs, data[i], FALSE)
         \o print_vector_output(cs, data, i + 1)

print_rec_output(cs, cell, is_car) ==
    IF cell = NULL THEN << >>
    ELSE CASE cs[cell].type = "TYPE_BOOLEAN" ->
                << "#", IF cs[cell].boolean THEN "t" ELSE "f" >>
           [] cs[cell].type = "TYPE_NUMBER" -> number_output(cs[cell].number)
           [] cs[cell].type = "TYPE_CHARACTER" ->
                IF cs[cell].character = " "
                THEN << "#", "\\", "s", "p", "a", "c", "e" >>
                ELSE IF cs[cell].character = "\n"
                THEN << "#", "\\", "n", "e", "w", "l", "i", "n", "e" >>
                ELSE << "#", "\\", cs[cell].character >>
           [] cs[cell].type = "TYPE_STRING" ->
                << "\"" >> \o Chars(cs[cell].string) \o << "\"" >>
           [] cs[cell].type = "TYPE_SYMBOL" -> Chars(cs[cell].symbol)
           [] cs[cell].type = "TYPE_PAIR" ->
                (IF is_car THEN << "(" >> ELSE << >>)
                \o print_rec_output(cs, cs[cell].car, TRUE)
                \o (IF cs[cell].cdr = NULL THEN << >>
                    ELSE << " " >>
                         \o (IF cs[cs[cell].cdr].type # "TYPE_PAIR"
                             THEN << ".", " " >> ELSE << >>)
                         \o print_rec_output(cs, cs[cell].cdr, FALSE))
                \o (IF is_car THEN << ")" >> ELSE << >>)
           [] cs[cell].type = "TYPE_VECTOR" ->
                << "#", "(" >> \o print_vector_output(cs, cs[cell].vector, 1)
                \o << ")" >>

print_output(cs, cell) == print_rec_output(cs, cell, TRUE) \o << "\n" >>


(***************************************************************************)
(* The driver: atom_api_load, atom_api_loadfile, and the `load` built-in.  *)
(***************************************************************************)
\* the activation returns to its caller
Returned(s) == [s EXCEPT !.events = Append(@, Event("return", s))]

\* atom_api_load up to the parse loop: jb is linked in as cont->escape and
\* the whole text is tokenized.  A JumpBuffer is the stack position setjmp
\* saved in it: the number of eval calls active at that point.
load_enter(s, data) ==
    [s EXCEPT !.escape = << [depth |-> s.depth] >> \o @,
              !.tokens = data,
              !.next = 0,
              !.events = Append(@, Event("enter", s))]

\* one pass of the for (;;) of atom_api_load; s.at tells where it stands:
\* "parse", "eval", then "loop" when the pass is complete and "break" when
\* parse_datum returned NULL
load_iter(s0) ==
    IF s0.fuel = 0 THEN TimedOut(s0)
    ELSE Then(parse_datum(Tick([s0 EXCEPT !.at = "parse"])), LAMBDA s1 :  \* cell
         IF s1.val = NULL THEN [print(s1, NULL) EXCEPT !.at = "break"]
         ELSE Then(print([s1 EXCEPT !.at = "eval"], s1.val), LAMBDA s2 :
              Then(eval(s2, s2.env, s1.val), LAMBDA s3 :                \* result
              Then(print(s3, s3.val), LAMBDA s4 :
                  [s4 EXCEPT !.at = "loop", !.val = s3.val]))))

\* a recovery that goes on with the parse loop, while tokens are left,
\* instead of leaving it
recover_resuming(s) ==
    [s EXCEPT !.status = "ok", !.depth = Head(s.escape).depth,
              !.at = IF s.next < Len(s.tokens) THEN "loop" ELSE "cleanup"]

\* setjmp returns a second time, in the activation that owns cont->escape:
\* if (error) { printf("Recovering from an error\n"); goto cleanup; }
recover(s) ==
    [s EXCEPT !.status = "ok", !.depth = Head(s.escape).depth, !.at = "cleanup"]

\* a cleanup that leaves its own jump buffer linked in as cont->escape
load_cleanup_unrestored(s, prev_) ==
    Then(collect_garbage([s EXCEPT !.tokens = << >>,
                                   !.events = Append(@, Event("destroy", s))]),
         LAMBDA s1 :
        Returned([s1 EXCEPT !.events = Append(@, Event("collect", s1))]))

\* cleanup: tokens.destroy(), collect_garbage(cont), cont->escape = prev
load_cleanup(s, prev_) ==
    Then(collect_garbage([s EXCEPT !.tokens = << >>,
                                   !.events = Append(@, Event("destroy", s))]),
         LAMBDA s1 :
        Returned([s1 EXCEPT !.events = Append(@, Event("collect", s1)),
                            !.escape = prev_]))

\* where the activation is after a pass that ended in state s
after_iter(s) == IF s.status = "error" THEN recover(s) ELSE s

RECURSIVE load_loop(_)
load_loop(s) ==
    Then(after_iter(load_iter(s)), LAMBDA s1 :
        IF s1.at # "loop" THEN s1 ELSE load_loop(s1))

\* a whole activation of atom_api_load, as `load` runs it from inside eval.
\* tokens and next are locals of each activation: the caller's are put back.
\* `tokens` has its address taken (input.tokens = &tokens), so it lives in
\* memory and still holds the buffer when setjmp returns the second time.
atom_api_load(s, data) ==
    [Then(load_loop(load_enter(s, data)), LAMBDA s1 : load_cleanup(s1, s.escape))
        EXCEPT !.tokens = s.tokens, !.next = s.next, !.at = s.at]

atom_api_loadfile(s, filename) ==
    IF FileKey(filename) = "" THEN signal_error(s)               \* fopen failed
    ELSE atom_api_load(s, Files[FileKey(filename)])

atom_load(s, env, params) ==
    Then(nth_param(s, env, params, 1, "TYPE_STRING"), LAMBDA s1 :
    Then(atom_api_loadfile(s1, s1.cells[s1.val].string), LAMBDA s2 :
        Return(s2, make_boolean(TRUE))))

(***************************************************************************)
(* eval.                                                                   *)
(***************************************************************************)
\* atom_api_open: add_builtin for each of these, in this order
Builtins ==
    << "quote", "lambda", "if", "set!", "cond", "and", "or", "let", "let*",
       "begin", "define", "quasiquote", "+", "not", "cons", "car", "cdr", "list", "length",
       "append", "string-ref", "close-input-port", "close-output-port",
       "open-input-file", "open-output-file",
       "current-input-port", "current-output-port",
       "load", "error" >>

\* return f(env, cdr(cell))
call_builtin(s, f, env, params) ==
    CASE f = "quote" -> atom_quote(s, env, params)
      [] f = "lambda" -> atom_lambda(s, env, params)
      [] f = "if" -> atom_if(s, env, params)
      [] f = "set!" -> atom_set_b(s, env, params)
      [] f = "cond" -> atom_cond(s, env, params)
      [] f = "and" -> atom_and(s, env, params)
      [] f = "or" -> atom_or(s, env, params)
      [] f = "let" -> atom_let(s, env, params)
      [] f = "let*" -> atom_let_s(s, env, params)
      [] f = "begin" -> atom_begin(s, env, params)
      [] f = "define" -> atom_define(s, env, params)
      [] f = "not" -> atom_not(s, env, params)
      [] f = "cons" -> atom_cons(s, env, params)
      [] f = "car" -> atom_car(s, env, params)
      [] f = "cdr" -> atom_cdr(s, env, params)
      [] f = "list" -> atom_list(s, env, params)
      [] f = "quasiquote" -> atom_quasiquote(s, env, params)
      [] f = "+" -> atom_plus(s, env, params)
      [] f = "length" -> atom_length(s, env, params)
      [] f = "append" -> atom_append(s, env, params)
      [] f = "string-ref" -> atom_string_ref(s, env, params)
      [] f = "close-input-port" -> atom_close_port(s, env, params, "TYPE_INPUT_PORT")
      [] f = "close-output-port" -> atom_close_port(s, env, params, "TYPE_OUTPUT_PORT")
      [] f = "open-input-file" -> atom_open_file(s, env, params, "TYPE_INPUT_PORT")
      [] f = "open-output-file" -> atom_open_file(s, env, params, "TYPE_OUTPUT_PORT")
      [] f = "current-input-port" -> make_io_port(s, "TYPE_INPUT_PORT", "stdin")
      [] f = "current-output-port" -> make_io_port(s, "TYPE_OUTPUT_PORT", "stdout")
      [] f = "load" -> atom_load(s, env, params)
      [] f = "error" -> atom_error(s, env, params)

\* the loop that binds the formals of a closure to the evaluated arguments
RECURSIVE bind_formals(_, _, _, _, _)
bind_formals(s, env, new_env, formals_, params) ==
    IF formals_ = NULL THEN s
    ELSE Then(car(s, formals_), LAMBDA s1 :                      \* car(formals)
         IF s1.val = NULL
         THEN Then(cdr(s1, formals_), LAMBDA s2 :
                  bind_formals(s2, env, new_env, s2.val, params))
         ELSE IF ~Live(s1, s1.val) THEN UB(s1)
         ELSE IF s1.cells[s1.val].type # "TYPE_SYMBOL" /\ ~s1.ndebug
         THEN AssertFailed(s1)
         ELSE Then(car(s1, params), LAMBDA s2 :
              Then(eval(s2, env, s2.val), LAMBDA s3 :            \* value
              Then(environment_define(s3, new_env, s3.cells[s1.val].symbol, s3.val),
                   LAMBDA s4 :
              Then(cdr(s4, params), LAMBDA s5 :                  \* params = cdr(params)
              Then(cdr(s5, formals_), LAMBDA s6 :
                  bind_formals(s6, env, new_env, s6.val, s5.val)))))))

RECURSIVE eval_tailcall(_, _, _), eval_body(_, _, _)

\* a body loop that evaluates the last statement in a nested eval as well
eval_body_nested(s, new_env, statement) ==
    Then(cdr(s, statement), LAMBDA s1 :
    Then(car(s1, statement), LAMBDA s2 :
    Then(eval(s2, new_env, s2.val), LAMBDA s3 :
        IF s1.val = NULL THEN s3 ELSE eval_body(s3, new_env, s1.val))))

\* the body loop of a closure call: every statement but the last goes
\* through a nested eval, the last one through `goto tailcall`
eval_body(s, new_env, statement) ==
    Then(cdr(s, statement), LAMBDA s1 :                          \* last = (s1.val = NULL)
    Then(car(s1, statement), LAMBDA s2 :
        IF s1.val = NULL THEN eval_tailcall(s2, new_env, s2.val)
        ELSE Then(eval(s2, new_env, s2.val), LAMBDA s3 :
                 eval_body(s3, new_env, s1.val))))

\* eval once `function` has been looked up: s.val is the function
eval_apply(s, env, cell) ==
    IF s.val = NULL THEN signal_error(s)
    ELSE IF ~Live(s, s.val) THEN UB(s)                           \* function->type
    ELSE IF s.cells[s.val].type # "TYPE_PROCEDURE" THEN signal_error(s)
    ELSE IF s.cells[s.val].function # ""
    THEN call_builtin(s, s.cells[s.val].function, env, s.cells[cell].cdr)
    ELSE Then(create_environment(s, s.cells[s.val].env), LAMBDA s1 :   \* new_env
         Then(bind_formals(s1, env, s1.val, s.cells[s.val].formals, s.cells[cell].cdr),
              LAMBDA s2 :
             IF s.cells[s.val].body = NULL
             THEN IF s2.ndebug THEN Return(s2, NULL)
                  ELSE AssertFailed(s2)                          \* assert(false)
             ELSE eval_body([s2 EXCEPT !.applied = Append(@, s2.depth)],
                            s1.val, s.cells[s.val].body)))

\* case TYPE_PAIR of eval
eval_pair(s, env, cell) ==
    IF s.cells[cell].car = NULL THEN signal_error(s)
    ELSE IF ~Live(s, s.cells[cell].car) THEN UB(s)               \* symbol->type
    ELSE Then(type_check(s, "TYPE_SYMBOL", s.cells[s.cells[cell].car].type), LAMBDA s1 :
         Then(environment_get(s1, env, s1.cells[s1.cells[cell].car].symbol), LAMBDA s2 :
             eval_apply(s2, env, cell)))

\* the switch (cell->type) of eval
eval_switch(s, env, cell) ==
    IF cell = NULL /\ ~s.ndebug THEN AssertFailed(s)        \* assert(cell)
    ELSE IF ~Live(s, cell) THEN UB(s)                            \* cell->type
    ELSE IF s.cells[cell].type \in {"TYPE_BOOLEAN", "TYPE_NUMBER", "TYPE_STRING",
                                    "TYPE_CHARACTER", "TYPE_VECTOR"}
    THEN Return(s, cell)
    ELSE IF s.cells[cell].type = "TYPE_SYMBOL"
    THEN environment_get(s, env, s.cells[cell].symbol)
    ELSE IF s.cells[cell].type = "TYPE_PAIR"
    THEN eval_pair(s, env, cell)
    ELSE IF s.ndebug THEN Return(s, NULL) ELSE AssertFailed(s)   \* default: assert(false)

\* eval from the label `tailcall` on
eval_tailcall(s, env, cell) ==
    IF s.fuel = 0 THEN TimedOut(s) ELSE eval_switch(Tick(s), env, cell)

\* one call of eval: s.depth counts the calls that are active
eval(s, env, cell) ==
    Then(eval_tailcall([s EXCEPT !.depth = @ + 1], env, cell), LAMBDA s1 :
        [s1 EXCEPT !.depth = s.depth])

(***************************************************************************)
(* atom_api_open and the processes of the model.                           *)
(***************************************************************************)
add_builtin(s, env, name) ==
    LET s1 == make_cell(s, "TYPE_PROCEDURE")
    IN  environment_define([s1 EXCEPT !.cells[s1.val].function = name],
                           env, name, s1.val)

RECURSIVE add_builtins(_, _, _)
add_builtins(s, env, i) ==
    IF ~Ok(s) \/ i > Len(Builtins) THEN s
    ELSE add_builtins(add_builtin(s, env, Builtins[i]), env, i + 1)

\* the Continuation atom_api_open returns, in a build with or without NDEBUG
atom_api_open(ndebug_) ==
    LET s0 == [cells |-> StaticCells, list |-> << >>, freed |-> {},
               allocated |-> 0, frames |-> << >>, escape |-> << >>,
               status |-> "ok", val |-> NULL, depth |-> 0,
               fuel |-> MaxEvalSteps, gclog |-> << >>, tokens |-> << >>,
               next |-> 0, ndebug |-> ndebug_, ub |-> "crash", errors |-> 0,
               message |-> "",
               closed |-> << >>, applied |-> << >>,
               events |-> << >>, data |-> << >>, pos |-> 1,
               env |-> 1, at |-> "idle"]
        s1 == create_environment(s0, NULL)
    IN  add_builtins(s1, s1.val, 1)

\* the interpreter state the variables hold, for a step whose undefined
\* behaviour, if it meets any, comes out as ub
St(ub) ==
    [cells |-> cells, list |-> cont_cells, freed |-> freed,
     allocated |-> cont_allocated, frames |-> frames, escape |-> cont_escape,
     status |-> "ok", val |-> NULL, depth |-> 0, fuel |-> MaxEvalSteps,
     gclog |-> gclog, tokens |-> tokens, next |-> next, ndebug |-> ndebug,
     ub |-> ub, errors |-> errors, message |-> message, closed |-> closed,
     applied |-> applied, events |-> events,
     data |-> input.data, pos |-> input.pos, env |-> 1, at |-> pc]

Commit(s) ==
    /\ cells' = s.cells
    /\ cont_cells' = s.list
    /\ freed' = s.freed
    /\ cont_allocated' = s.allocated
    /\ frames' = s.frames
    /\ cont_escape' = s.escape
    /\ gclog' = s.gclog
    /\ tokens' = s.tokens
    /\ next' = s.next
    /\ errors' = s.errors
    /\ message' = s.message
    /\ closed' = s.closed
    /\ applied' = s.applied
    /\ events' = s.events
    /\ status' = s.status

NoCall == [op |-> "none", env |-> NULL, name |-> "", value |-> NULL, count |-> 0]

NoInput == [data |-> << >>, pos |-> 1, reads |-> 0]

\* the process after atom_api_open, before any text is loaded
Opened ==
    /\ LET s == atom_api_open(ndebug)
       IN  /\ cells = s.cells
           /\ cont_cells = s.list
           /\ freed = s.freed
           /\ cont_allocated = s.allocated
           /\ frames = s.frames
           /\ frames0 = s.frames
           /\ cont_escape = s.escape
           /\ gclog = s.gclog
           /\ tokens = s.tokens
           /\ next = s.next
           /\ errors = s.errors
           /\ message = s.message
           /\ closed = s.closed
           /\ applied = s.applied
           /\ events = s.events
           /\ status = s.status
    /\ pc = "idle"
    /\ prev = << >>
    /\ text = ""
    /\ loads = 0
    /\ result = NULL
    /\ outcome = "none"
    /\ evaluated = 0
    /\ input = NoInput
    /\ reread = NULL
    /\ call = NoCall

Init ==
    /\ ndebug \in BOOLEAN
    /\ suite \in Suites
    /\ Opened

\* atom_api_load is called with the text `name` (a line of the REPL, or the
\* file named on the command line) and runs up to its parse loop
Load(name) ==
    /\ status = "ok"
    /\ pc = "idle"
    /\ loads < MaxLoads
    /\ Commit(load_enter([St("crash") EXCEPT !.applied = << >>, !.events = << >>],
                          Texts[name]))
    /\ prev' = cont_escape
    /\ pc' = "loop"
    /\ text' = name
    /\ loads' = loads + 1
    /\ evaluated' = 0
    /\ outcome' = "none"
    /\ UNCHANGED << ndebug, frames0, result, suite, input, reread, call >>

\* how one pass of the loop ended
Outcome(s, before) ==
    CASE s.status = "ok" /\ s.at = "loop" -> "value"
      [] s.status = "ok" /\ s.at = "break" -> "end"
      [] s.status = "error" /\ s.at = "parse" ->
            IF before.next >= Len(before.tokens) THEN "eof" ELSE "syntax"
      [] s.status = "error" -> "error"
      [] OTHER -> s.status

\* one pass of the top-level activation's loop: parse the next datum, print
\* it, evaluate it, print the result
LoadStep(ub) ==
    /\ status = "ok"
    /\ pc = "loop"
    /\ LET s1 == load_iter(St(ub))
           s2 == after_iter(s1)
       IN  /\ Commit(s2)
           /\ outcome' = Outcome(s1, St(ub))
           /\ pc' = IF Ok(s2) /\ s2.at = "loop" THEN "loop" ELSE "cleanup"
           /\ result' = IF Ok(s1) /\ s1.at = "loop" THEN s1.val ELSE result
           /\ evaluated' = IF Ok(s1) /\ s1.at = "loop" THEN evaluated + 1 ELSE evaluated
    /\ frames0' = frames
    /\ UNCHANGED << ndebug, prev, text, loads, suite, input, reread, call >>

\* the top-level activation from the label `cleanup` to its return
LoadCleanup(ub) ==
    /\ status = "ok"
    /\ pc = "cleanup"
    /\ Commit(load_cleanup(St(ub), prev))
    /\ pc' = "idle"
    /\ UNCHANGED << ndebug, frames0, prev, text, loads, result, outcome,
                    evaluated, suite, input, reread, call >>

\* the command lines of the front end: the words after the program's name
Arguments ==
    { << >>, << "-f" >>, << "-f", "a.scm" >>, << "-f", "zz.scm" >> }

\* the file main loads when no -f names one
DefaultFilename == "/Users/marcomorain/dev/scheme/test/bug.scm"

\* main without -i: the options are read, the file is loaded by
\* atom_api_loadfile, and the interpreter is closed.  With -i the lines of
\* the REPL follow, each one a Load.
main(ub, argv) ==
    /\ status = "ok"
    /\ pc = "idle"
    /\ loads = 0
    /\ Commit(IF argv = << "-f" >>
              THEN signal_error(St(ub))                 \* filename expected
              ELSE atom_api_loadfile(St(ub), IF argv = << >> THEN DefaultFilename
                                                             ELSE argv[2]))
    /\ pc' = "exit"
    /\ UNCHANGED << ndebug, frames0, prev, text, loads, result, outcome,
                    evaluated, suite, input, reread, call >>

Next ==
    \/ \E name \in TextNames[suite] : Load(name)
    \/ \E ub \in UBOutcomes : LoadStep(ub)
    \/ \E ub \in UBOutcomes : LoadCleanup(ub)
    \/ \E ub \in UBOutcomes, argv \in Arguments : main(ub, argv)

Spec == Init /\ [][Next]_vars

(***************************************************************************)
(* SpecEnv: create_environment, environment_define and environment_set     *)
(* applied to the frames directly, as eval, let_helper, atom_define and    *)
(* atom_set_b apply them, with any frame, name and value.                  *)
(***************************************************************************)
EnvNames == {"x", "y"}

EnvValues == {cell_true, cell_false}

InitEnv ==
    /\ ndebug \in BOOLEAN
    /\ suite = "env"
    /\ Opened

Called(op_, env, str, value_) ==
    call' = [op |-> op_, env |-> env, name |-> str, value |-> value_,
             count |-> call.count + 1]

EnvIdle ==
    UNCHANGED << ndebug, cells, freed, cont_cells, cont_allocated, cont_escape,
                 pc, tokens, next, prev, text, loads, result, outcome,
                 evaluated, gclog, closed, events, applied, suite, input, reread >>

EnvCreate(parent_) ==
    /\ status = "ok"
    /\ call.count < MaxEnvOps
    /\ Len(frames) < MaxFrames
    /\ LET s == create_environment(St("crash"), parent_)
       IN  /\ frames' = s.frames
           /\ Called("create", s.val, "", NULL)
    /\ frames0' = frames
    /\ UNCHANGED << status, errors, message >>
    /\ EnvIdle

EnvDefine(env, str, value_) ==
    /\ status = "ok"
    /\ call.count < MaxEnvOps
    /\ frames' = environment_define(St("crash"), env, str, value_).frames
    /\ Called("define", env, str, value_)
    /\ frames0' = frames
    /\ UNCHANGED << status, errors, message >>
    /\ EnvIdle

EnvSet(ub, env, str, value_) ==
    /\ status = "ok"
    /\ call.count < MaxEnvOps
    /\ LET s == environment_set(St(ub), env, str, value_)
       IN  /\ frames' = s.frames
           /\ status' = s.status
           /\ errors' = s.errors
           /\ message' = s.message
    /\ Called("set", env, str, value_)
    /\ frames0' = frames
    /\ EnvIdle

NextEnv ==
    \/ \E parent_ \in DOMAIN frames : EnvCreate(parent_)
    \/ \E env \in DOMAIN frames, str \in EnvNames, value_ \in EnvValues :
          EnvDefine(env, str, value_)
    \/ \E ub \in UBOutcomes, env \in DOMAIN frames, str \in EnvNames,
          value_ \in EnvValues :
          EnvSet(ub, env, str, value_)

SpecEnv == InitEnv /\ [][NextEnv]_vars


(***************************************************************************)
(* SpecRead: the reader and the writer applied to texts given character by *)
(* character.  A text is tokenized one read_token call at a time, its      *)
(* first datum is parsed, and the text print writes for that datum is      *)
(* tokenized and parsed in turn.                                           *)
(***************************************************************************)
\* a character literal, then what follows it in the text
CharLiterals ==
    { << "#", "\\", c >> : c \in {"a", "x", "s", "n", "("} }
    \cup { << "#", "\\", "s", "p", "a", "c", "e" >>,
           << "#", "\\", "n", "e", "w", "l", "i", "n", "e" >> }

Followers ==
    { << >>, << " " >>, << ")" >>, << "\n", "x" >>, << " ", "x" >>, << "b" >>,
      << "b", " " >> }

\* the texts of each group
Sources ==
    [chars |-> { lit \o after : lit \in CharLiterals, after \in Followers },
     data |->
       { << "1", "2" >>,
         << "a" >>,
         << "#", "t" >>,
         << "#", "f" >>,
         << "\"", "a", "b", "\"" >>,
         << "#", "\\", "a" >>,
         << "#", "\\", "s", "p", "a", "c", "e" >>,
         << "'", "a" >>,
         << "(", "q", "u", "o", "t", "e", " ", "a", ")" >>,
         << "(", "1", " ", "2", ")" >>,
         << "(", "1", " ", "(", "2", ")", ")" >>,
         << "(", "a", " ", ".", " ", "1", ")" >>,
         << "(", "#", "\\", "a", " ", "#", "t", ")" >>,
         << "(", "#", "\\", "s", " ", ")" >>,
         << "#", "(", "1", " ", "2", ")" >>,
         << "#", "(", "(", "1", ")", " ", "2", ")" >>,
         << "#", "(", "#", "(", "1", ")", " ", "a", ")" >> },
     \* one token more than the token buffer holds: ((( ... (
     long |->
       { [i \in 1 .. TokenListLength + 1 |-> "("] }]

InitRead ==
    /\ ndebug \in BOOLEAN
    /\ suite \in DOMAIN Sources
    /\ Opened

\* how a step of the reader ended
ReadOutcome(s, done) ==
    IF Ok(s) THEN done ELSE IF s.status = "error" THEN "syntax" ELSE s.status

\* atom_api_load is called with the text data and runs up to its tokenize
\* loop: the escape is linked in, input.init, tokens.init
LoadText(data_) ==
    /\ status = "ok"
    /\ pc = "idle"
    /\ loads = 0
    /\ Commit(load_enter(St("crash"), << >>))
    /\ input' = [data |-> data_, pos |-> 1, reads |-> 0]
    /\ prev' = cont_escape
    /\ pc' = "lex"
    /\ loads' = loads + 1
    /\ UNCHANGED << ndebug, frames0, text, result, outcome, evaluated, suite,
                    reread, call >>

\* one pass of while (input.get()) read_token(input);
ReadToken(ub) ==
    /\ status = "ok"
    /\ pc = "lex"
    /\ input_get(St(ub)) # NUL
    /\ LET s1 == read_token(St(ub))
       IN  /\ Commit(after_iter(s1))
           /\ input' = [input EXCEPT !.pos = s1.pos, !.reads = @ + 1]
           /\ outcome' = ReadOutcome(s1, "token")
           /\ pc' = IF Ok(s1) THEN "lex" ELSE "cleanup"
    /\ UNCHANGED << ndebug, frames0, prev, text, loads, result, evaluated,
                    suite, reread, call >>

\* tokens.start_parse() and the first parse_datum of the loop; outcome
\* tells how it ended
ParseDatum(ub) ==
    /\ status = "ok"
    /\ pc = "lex"
    /\ input_get(St(ub)) = NUL
    /\ LET s1 == parse_datum(St(ub))
       IN  /\ Commit(after_iter(s1))
           /\ result' = IF Ok(s1) THEN s1.val ELSE NULL
           /\ outcome' = ReadOutcome(s1, IF s1.val = NULL THEN "end" ELSE "datum")
           /\ pc' = "parsed"
    /\ UNCHANGED << ndebug, frames0, prev, text, loads, evaluated, suite,
                    input, reread, call >>

\* the datum is printed, and what was printed is tokenized and parsed
WriteRead(ub) ==
    /\ status = "ok"
    /\ pc = "parsed"
    /\ outcome = "datum"
    /\ LET s1 == tokenize(input_init(St(ub), print_output(cells, result)))
           s2 == Then(s1, parse_datum)
       IN  /\ Commit(after_iter(s2))
           /\ input' = [input EXCEPT !.data = s1.data, !.pos = s1.pos]
           /\ reread' = IF Ok(s2) THEN s2.val ELSE NULL
           /\ outcome' = ReadOutcome(s2, "reread")
           /\ pc' = "reread"
    /\ UNCHANGED << ndebug, frames0, prev, text, loads, result, evaluated,
                    suite, call >>

NextRead ==
    \/ \E data_ \in Sources[suite] : LoadText(data_)
    \/ \E ub \in UBOutcomes : ReadToken(ub)
    \/ \E ub \in UBOutcomes : ParseDatum(ub)
    \/ \E ub \in UBOutcomes : WriteRead(ub)

SpecRead == InitRead /\ [][NextRead]_vars


(***************************************************************************)
(* Vocabulary of the properties.                                           *)
(***************************************************************************)
Bound(env, str) == FindNode(frames[env].data, str, 1) # 0

ValueOf(env, str) == frames[env].data[FindNode(frames[env].data, str, 1)].value

IsLive(c) == c \in DOMAIN cells /\ c # NULL /\ c \notin freed

IsNumber(c, n) ==
    IsLive(c) /\ cells[c].type = "TYPE_NUMBER" /\ cells[c].number = n

IsBoolean(c, b) ==
    IsLive(c) /\ cells[c].type = "TYPE_BOOLEAN" /\ cells[c].boolean = b

IsCharacter(c, ch) ==
    IsLive(c) /\ cells[c].type = "TYPE_CHARACTER" /\ cells[c].character = ch

IsVector(c, n) ==
    IsLive(c) /\ cells[c].type = "TYPE_VECTOR" /\ Len(cells[c].vector) = n

IsClosure(c) ==
    IsLive(c) /\ cells[c].type = "TYPE_PROCEDURE" /\ cells[c].function = ""

\* c is a proper list whose elements are the numbers of ns, in order
RECURSIVE IsNumberList(_, _)
IsNumberList(c, ns) ==
    IF ns = << >> THEN c = NULL
    ELSE /\ IsLive(c)
         /\ cells[c].type = "TYPE_PAIR"
         /\ IsNumber(cells[c].car, Head(ns))
         /\ IsNumberList(cells[c].cdr, Tail(ns))

\* the frames a lookup that starts in env goes through
RECURSIVE EnvChain(_)
EnvChain(env) ==
    IF env = NULL THEN {} ELSE {env} \cup EnvChain(frames[env].parent)

FrameValues(env) ==
    {frames[env].data[i].value : i \in DOMAIN frames[env].data} \ {NULL}

\* the cells a cell refers to: the car and cdr of a pair, the elements of a
\* vector, the formals and body of a closure and every binding visible in
\* the closure's captured environment chain
Refs(c) ==
    IF c \notin DOMAIN cells THEN {}
    ELSE (CASE cells[c].type = "TYPE_PAIR" -> {cells[c].car, cells[c].cdr}
            [] cells[c].type = "TYPE_VECTOR" ->
                 {cells[c].vector[i] : i \in DOMAIN cells[c].vector}
            [] cells[c].type = "TYPE_PROCEDURE" /\ cells[c].function = "" ->
                 {cells[c].formals, cells[c].body}
                 \cup UNION {FrameValues(e) : e \in EnvChain(cells[c].env)}
            [] OTHER -> {}) \ {NULL}

RECURSIVE ReachableFrom(_)
ReachableFrom(set) ==
    LET more == set \cup UNION {Refs(c) : c \in set}
    IN  IF more = set THEN set ELSE ReachableFrom(more)

\* every cell reachable from a binding of the root frame
RootReachable == ReachableFrom(FrameValues(1))

Stepped == outcome # "none"

\* every datum of the text t, which has n of them, is evaluated without an
\* error, a crash or undefined behaviour
RunsThrough(t, n) ==
    (text = t /\ Stepped) =>
        /\ outcome \in {"value", "eof"}
        /\ outcome = "eof" => evaluated = n

\* the n-th datum of the text t has just been evaluated: `result` is its value
Evaluated(t, n) == text = t /\ outcome = "value" /\ evaluated = n

(***************************************************************************)
(* C1.  After any sequence of top-level evaluations followed by a          *)
(* collect_garbage, no cell reachable from a binding of the root           *)
(* environment - through pairs, vectors, closure formals and bodies, and   *)
(* the bindings visible in a closure's captured environment chain - has    *)
(* been freed.                                                             *)
(* Refuted: mark_environment walks only the captured frame itself, not     *)
(* its parents.  After (define (f a) (let ((b 2)) (lambda (c) a)))         *)
(* (define g (f 1)), the cell bound to a, which g sees through the parent  *)
(* of its captured frame, is freed by the collection that ends the load.   *)
(***************************************************************************)
C1_RootReachableCellsSurvive ==
    (status = "ok" /\ pc = "idle") => RootReachable \cap freed = {}

(***************************************************************************)
(* C2.  collect_garbage runs only while no eval call is active, also in    *)
(* programs that call load inside an expression.                           *)
(* Refuted: atom_load calls atom_api_load, whose cleanup collects while    *)
(* the eval of the (load ...) expression is still active.                  *)
(***************************************************************************)
C2_CollectOnlyOutsideEval == \A i \in DOMAIN gclog : gclog[i] = 0

(***************************************************************************)
(* C3.  As stated: after an error in one top-level expression the driver   *)
(* resumes with the next top-level expression of the same text, i.e. an    *)
(* activation whose last evaluation signalled an error while tokens are    *)
(* left is still in its parse loop.                                        *)
(***************************************************************************)
C3_ResumesWithNextExpression ==
    (status = "ok" /\ outcome = "error" /\ next < Len(tokens)) => pc = "loop"

(***************************************************************************)
(* C3, as the code has it.  When the evaluation of a top-level expression  *)
(* signals an error the activation leaves its loop for cleanup without     *)
(* counting an evaluation, and cleanup parses and evaluates nothing more   *)
(* of the text: it runs the collector once, restores cont->escape to the   *)
(* value saved on entry, and atom_api_load returns.                        *)
(***************************************************************************)
C3_AbandonsRestOfText ==
    [][ /\ (pc = "loop" /\ outcome' = "error")
            => (pc' = "cleanup" /\ evaluated' = evaluated)
        /\ (pc = "cleanup" /\ outcome = "error" /\ status' = "ok")
            => /\ pc' = "idle"
               /\ evaluated' = evaluated
               /\ next' = next
               /\ frames' = frames
               /\ cont_escape' = prev
               /\ Len(gclog') = Len(gclog) + 1 ]_vars

\* the text  u (define z 1)  has returned after the error in u, with the
\* tokens of (define z 1) never parsed and z unbound
C3_Witness ==
    /\ pc = "idle"
    /\ status = "ok"
    /\ text = "err"
    /\ outcome = "error"
    /\ evaluated = 0
    /\ next < Len(Texts[text])
    /\ ~Bound(1, "z")

(***************************************************************************)
(* C4.  set! on a name bound in no frame signals a recoverable error       *)
(* through the escape point and changes no binding.                        *)
(* Refuted: environment_set leaves its loop with env == NULL and then      *)
(* passes env->cont to signal_error: (set! u 1) reads through a null       *)
(* pointer instead of reaching the escape point.                           *)
(***************************************************************************)
C4_SetUnboundSignalsError ==
    (text = "setu" /\ Stepped) => (outcome = "error" /\ frames = frames0)


\* the frame of `fr` nearest to env, env included, that binds str; NULL if
\* no frame of the chain does
RECURSIVE Nearest(_, _, _)
Nearest(fr, env, str) ==
    IF env = NULL THEN NULL
    ELSE IF FindNode(fr[env].data, str, 1) # 0 THEN env
    ELSE Nearest(fr, fr[env].parent, str)

\* what the frame env of `fr` binds str to, as a set: empty if unbound
BindingIn(fr, env, str) ==
    {fr[env].data[i].value : i \in {i \in DOMAIN fr[env].data : fr[env].data[i].symbol = str}}

\* the frames fr and their successors fr2 differ at most in what frame env
\* binds str to
OnlyChanged(fr, fr2, env, str) ==
    /\ DOMAIN fr2 = DOMAIN fr
    /\ \A f \in DOMAIN fr :
          /\ fr2[f].parent = fr[f].parent
          /\ f # env => fr2[f] = fr[f]
    /\ \A n \in EnvNames \cup {Builtins[i] : i \in DOMAIN Builtins} :
          n # str => BindingIn(fr2, env, n) = BindingIn(fr, env, n)

\* what a lookup of str that starts in env returns
Lookup(env, str) == environment_get(St("crash"), env, str).val

\* the frames whose lookups of str pass through env: env itself and every
\* descendant with no binding of str on the way to env
SeesThrough(env, str) ==
    {c \in DOMAIN frames : env \in EnvChain(c) /\ Nearest(frames, c, str) = env}

C6_LambdaHeadApplies ==
    /\ RunsThrough("lamid", 1)
    /\ Evaluated("lamid", 1) => IsNumber(result, 5)
    /\ RunsThrough("lamnest", 1)
    /\ Evaluated("lamnest", 1) => IsNumber(result, 1)

\* the operands v of (id v) that are tried, with the value each must yield
Operands == { Nm(0), Nm(1), Nm(5), Bool(TRUE), Bool(FALSE) }

YieldsValueOf(s, tk) ==
    /\ Ok(s)
    /\ s.at = "loop"
    /\ Live(s, s.val)
    /\ IF tk.type = "TOKEN_NUMBER"
       THEN s.cells[s.val].type = "TYPE_NUMBER" /\ s.cells[s.val].number = tk.number
       ELSE s.cells[s.val].type = "TYPE_BOOLEAN"
            /\ s.cells[s.val].boolean = (tk.number = 1)

\* what the top level makes of the one-datum text `data` in the state reached
Try(ub, data) == load_iter(load_enter(St(ub), data))

(***************************************************************************)
(* C6, as the code has it.  eval requires the head of an application to be *)
(* a symbol: an application whose head is a lambda expression signals a    *)
(* type error and binds nothing.  The parameter passing the claim is about *)
(* holds for a closure reached through a name: once id is bound to the     *)
(* closure of (lambda (x) x), (id v) yields the value of v, and with       *)
(* (define (outer x) (id 1)) the call (outer 2) yields 1, the inner x      *)
(* shadowing the outer one.                                                *)
(***************************************************************************)
C6_NamedClosureApplies ==
    /\ (text \in {"lamid", "lamnest"} /\ Stepped)
          => (outcome = "error" /\ frames = frames0)
    /\ RunsThrough("id", 2)
    /\ Evaluated("id", 2) => IsNumber(result, 5)
    /\ (text = "id" /\ pc = "idle" /\ status = "ok" /\ evaluated = 2)
          => \A tk \in Operands : \A ub \in UBOutcomes :
                YieldsValueOf(Try(ub, L(<< I("id"), << tk >> >>)), tk)
    /\ Bound(1, "id") => RunsThrough("idnest", 2)
    /\ (Evaluated("idnest", 2) /\ Bound(1, "id")) => IsNumber(result, 1)

\* (define id (lambda (x) x)) (id 5) has returned 5, and later
\* (define (outer x) (id 1)) (outer 2) has returned 1
C6_Witness ==
    /\ Evaluated("idnest", 2)
    /\ Bound(1, "id")
    /\ IsClosure(ValueOf(1, "id"))
    /\ IsNumber(result, 1)

(***************************************************************************)
(* C7.  (and) evaluates to #t and (or) evaluates to #f, without an error.  *)
(* Refuted: atom_and and atom_or begin with car(params), and params is     *)
(* NULL when there is no argument.                                         *)
(***************************************************************************)
C7_EmptyAndOr ==
    /\ RunsThrough("and0", 1)
    /\ Evaluated("and0", 1) => IsBoolean(result, TRUE)
    /\ RunsThrough("or0", 1)
    /\ Evaluated("or0", 1) => IsBoolean(result, FALSE)

(***************************************************************************)
(* C8.  Only #f is false in if, cond, and, or and not: 0 and the empty     *)
(* list (a null reference, here the cdr of a one-element list) count as    *)
(* true and signal no error.                                               *)
(* Refuted for the empty list: atom_if reports it as a missing parameter,  *)
(* and atom_cond, atom_and, atom_or and atom_not read the type of the test *)
(* value through the null pointer.                                         *)
(***************************************************************************)
C8_OnlyFalseIsFalse ==
    /\ \A t \in TextNames.truth : RunsThrough(t, 1)
    /\ \A t \in {"if0", "cond0", "ifnull", "condnull", "andnull"} :
          Evaluated(t, 1) => IsNumber(result, 1)
    /\ Evaluated("iff", 1) => IsNumber(result, 2)
    /\ Evaluated("ornull", 1) => result = NULL
    /\ \A t \in {"not0", "notnull"} : Evaluated(t, 1) => IsBoolean(result, FALSE)

\* the datum at a in state sa and the datum at b in state sb are equal
RECURSIVE EqualDatum(_, _, _, _)
EqualDatum(sa, a, sb, b) ==
    IF a = NULL \/ b = NULL THEN a = b
    ELSE /\ Live(sa, a)
         /\ Live(sb, b)
         /\ sa.cells[a].type = sb.cells[b].type
         /\ IF sa.cells[a].type = "TYPE_PAIR"
            THEN /\ EqualDatum(sa, sa.cells[a].car, sb, sb.cells[b].car)
                 /\ EqualDatum(sa, sa.cells[a].cdr, sb, sb.cells[b].cdr)
            ELSE IF sa.cells[a].type = "TYPE_VECTOR"
            THEN /\ Len(sa.cells[a].vector) = Len(sb.cells[b].vector)
                 /\ \A i \in DOMAIN sa.cells[a].vector :
                       EqualDatum(sa, sa.cells[a].vector[i], sb, sb.cells[b].vector[i])
            ELSE /\ sa.cells[a].number = sb.cells[b].number
                 /\ sa.cells[a].symbol = sb.cells[b].symbol
                 /\ sa.cells[a].boolean = sb.cells[b].boolean
                 /\ sa.cells[a].character = sb.cells[b].character
                 /\ sa.cells[a].string = sb.cells[b].string

\* the value bound to str in the root frame of state s, NULL if none
RootValue(s, str) ==
    LET i == FindNode(s.frames[s.env].data, str, 1)
    IN  IF i = 0 THEN NULL ELSE s.frames[s.env].data[i].value

\* both definitions end the same way and, where they return, bind k to
\* closures with equal formals, equal bodies and the same environment
SameDefinition(sa, sb) ==
    /\ sa.status = sb.status
    /\ sa.at = sb.at
    /\ Ok(sa) =>
          LET ka == RootValue(sa, "k")
              kb == RootValue(sb, "k")
          IN  /\ Live(sa, ka) /\ Live(sb, kb)
              /\ sa.cells[ka].type = "TYPE_PROCEDURE"
              /\ sb.cells[kb].type = "TYPE_PROCEDURE"
              /\ sa.cells[ka].env = sb.cells[kb].env
              /\ EqualDatum(sa, sa.cells[ka].formals, sb, sb.cells[kb].formals)
              /\ EqualDatum(sa, sa.cells[ka].body, sb, sb.cells[kb].body)

(***************************************************************************)
(* C9.  (define (s . formals) body...) has the effect of                   *)
(* (define s (lambda formals body...)), also when formals is empty: from   *)
(* any state between two loads, (define (k a) a) and                       *)
(* (define k (lambda (a) a)), and (define (k) 1) and                       *)
(* (define k (lambda () 1)), end the same way and bind k to equal          *)
(* closures.                                                               *)
(* Refuted for empty formals: atom_define passes cdr(first), which is      *)
(* NULL, to make_procedure, which reads formals->type; the lambda form     *)
(* passes the pair the parser builds for ().                               *)
(***************************************************************************)
C9_DefineSugarEquivalent ==
    (pc = "idle" /\ status = "ok") =>
        \A ub \in UBOutcomes :
            /\ SameDefinition(Try(ub, Texts.sugar1), Try(ub, Texts.plain1))
            /\ SameDefinition(Try(ub, Texts.sugar0), Try(ub, Texts.plain0))

(***************************************************************************)
(* C10.  (list a1 ... an) terminates and returns the proper list of the n  *)
(* values: (list 1 2) returns (1 2), (list) returns the empty list, and    *)
(* after (define l (list 1)) the name l is bound to (1).                   *)
(* Refuted: the loop of atom_list has no exit and calls car(params) again  *)
(* when params has run out.                                                *)
(***************************************************************************)
C10_ListBuildsProperList ==
    /\ RunsThrough("list2", 1)
    /\ Evaluated("list2", 1) => IsNumberList(result, << 1, 2 >>)
    /\ RunsThrough("list0", 1)
    /\ Evaluated("list0", 1) => result = NULL
    /\ RunsThrough("list1", 2)
    /\ Evaluated("list1", 2) => IsNumberList(result, << 1 >>)

(***************************************************************************)
(* C11.  (string-ref s k) returns character k of s when 0 <= k < length(s) *)
(* and signals an error, reading nothing of the buffer, for every other k. *)
(* Refuted: the test is k < 0 || k < strlen(s), so every valid index       *)
(* signals the error, k = length(s) returns the terminating NUL, and a     *)
(* larger k reads outside the string's buffer.                             *)
(***************************************************************************)
C11_StringRefInBounds ==
    /\ RunsThrough("sref0", 1)
    /\ Evaluated("sref0", 1) => IsCharacter(result, "a")
    /\ RunsThrough("sref1", 1)
    /\ Evaluated("sref1", 1) => IsCharacter(result, "b")
    /\ (text \in {"sref2", "sref3"} /\ Stepped) => outcome = "error"

(***************************************************************************)
(* C12.  For proper lists xs and ys, (length (append xs ys)) equals        *)
(* (+ (length xs) (length ys)): once the text lenapp has bound n to the    *)
(* first and m to the second, n and m are the same number.                 *)
(* Refuted: atom_length counts from 1, so each length is one more than the *)
(* number of elements; the left side is off by one and the right by two.   *)
(***************************************************************************)
C12_LengthOfAppend ==
    /\ RunsThrough("lenapp", 4)
    /\ Evaluated("lenapp", 4) =>
          /\ Bound(1, "n") /\ Bound(1, "m")
          /\ IsLive(ValueOf(1, "n")) /\ IsLive(ValueOf(1, "m"))
          /\ cells[ValueOf(1, "n")].number = cells[ValueOf(1, "m")].number

(***************************************************************************)
(* C13.  (length xs) is the number of elements of the proper list xs.      *)
(* Refuted: atom_length starts its counter at 1 and adds one per pair:     *)
(* (length '(1 2)) is 3, and the length of the empty list is 1.            *)
(***************************************************************************)
C13_LengthCountsElements ==
    /\ RunsThrough("len2", 1)
    /\ Evaluated("len2", 1) => IsNumber(result, 2)
    /\ RunsThrough("len1", 1)
    /\ Evaluated("len1", 1) => IsNumber(result, 1)
    /\ RunsThrough("len0", 1)
    /\ Evaluated("len0", 1) => IsNumber(result, 0)

(***************************************************************************)
(* C14.  (quasiquote tmpl), for a template that is a proper list, returns  *)
(* the list with every (unquote x) element replaced by the value of x,     *)
(* every (unquote-splicing x) element by the elements of the list x        *)
(* evaluates to, and every other element - an atom or a nested list of any *)
(* shape - kept as it is.                                                  *)
(* Refuted: quasiquote_helper takes the car of every element that is a     *)
(* pair for the operation and hands it to symbol_is, which asserts that it *)
(* is a symbol.  `(1 (2 3)) fails that assert, or compares the bytes of    *)
(* the number 2 as a string pointer.                                       *)
(***************************************************************************)
C14_QuasiquoteFillsTemplate ==
    /\ RunsThrough("qq0", 1)
    /\ Evaluated("qq0", 1) => IsNumberList(result, << 1, 2 >>)
    /\ RunsThrough("qqu", 2)
    /\ Evaluated("qqu", 2) => IsNumberList(result, << 1, 5 >>)
    /\ RunsThrough("qqs", 2)
    /\ Evaluated("qqs", 2) => IsNumberList(result, << 1, 2, 3, 4 >>)
    /\ RunsThrough("qqn", 1)
    /\ Evaluated("qqn", 1) =>
          /\ IsLive(result)
          /\ cells[result].type = "TYPE_PAIR"
          /\ IsNumber(cells[result].car, 1)
          /\ IsLive(cells[result].cdr)
          /\ IsNumberList(cells[cells[result].cdr].car, << 2, 3 >>)
          /\ cells[cells[result].cdr].cdr = NULL

(***************************************************************************)
(* C19.  Neither an explicit close-input-port / close-output-port on any   *)
(* port value nor the collection of a port cell ever closes the process's  *)
(* standard input or standard output.                                      *)
(* Refuted: the collector spares stdin and stdout, but the two close       *)
(* procedures call fclose on whatever stream the port holds, and           *)
(* (current-input-port) / (current-output-port) hand out ports that hold   *)
(* stdin and stdout.                                                       *)
(***************************************************************************)
C19_StandardStreamsStayOpen ==
    \A i \in DOMAIN closed : closed[i] \notin {"stdin", "stdout"}

(***************************************************************************)
(* C20.  When the last expression of a closure body is a closure call,     *)
(* eval goes on with it in the same invocation (goto tailcall): along a    *)
(* chain of last-position closure calls every body is entered with the     *)
(* number of active eval calls that the first one was entered with.  In    *)
(* the text chain, f calls g calls h, each in last position, from the top  *)
(* level.  In the text chain2, e calls f twice: the first call, not in     *)
(* last position, runs its chain one eval call deeper, and the second, in  *)
(* last position, runs it at the depth e was entered with.                 *)
(***************************************************************************)
C20_TailCallKeepsDepth ==
    /\ RunsThrough("chain", 4)
    /\ Evaluated("chain", 4) => (applied = << 1, 1, 1 >> /\ IsNumber(result, 1))
    /\ (text = "chain2" /\ Bound(1, "f")) => RunsThrough("chain2", 2)
    /\ (Evaluated("chain2", 2) /\ Bound(1, "f")) =>
          applied = << 1, 2, 2, 2, 1, 1, 1 >>

\* e has run the chain f, g, h twice, the second time from its last
\* position, and has returned
C20_Witness ==
    /\ Evaluated("chain2", 2)
    /\ Len(applied) = 7

(***************************************************************************)
(* C16.  Every token sequence that does not match the datum grammar - a    *)
(* stray ) at top level, a dot with no datum before it, a dot whose datum  *)
(* is not followed at once by ), end of input included, an abbreviation    *)
(* with no datum after it, an unclosed list or vector - makes the parser   *)
(* signal a syntax error.                                                  *)
(* Refuted: parse_datum returns NULL for a token no rule starts with, and  *)
(* only some callers test for it.  At top level the loop of atom_api_load  *)
(* takes the NULL for the end of the text; parse_list does not test its    *)
(* first element, so ( . 1) is a pair with a NULL car; parse_abreviation   *)
(* does not test the datum, so (') holds (quote) with a NULL operand; and  *)
(* after the datum that follows a dot tokens.peek()->type is read without  *)
(* a test for the end of the buffer.                                       *)
(***************************************************************************)
C16_MalformedInputIsSyntaxError ==
    (text \in TextNames.syntax /\ Stepped) => outcome = "syntax"

(***************************************************************************)
(* C17.  Parsing #( d1 ... dn ) yields a vector of exactly n elements and  *)
(* consumes every token of the literal, its closing ) included: the next   *)
(* datum starts at the token after that ).                                 *)
(* Refuted: parse_vector leaves its loop at the ) without skipping it.     *)
(* At top level the next parse_datum meets that ) and returns NULL, which  *)
(* ends the load; inside a list the ) closes the enclosing list.           *)
(***************************************************************************)
C17_VectorLiteralConsumed ==
    /\ RunsThrough("vec2", 2)
    /\ Evaluated("vec2", 1) =>
          /\ IsVector(result, 2)
          /\ IsNumber(cells[result].vector[1], 1)
          /\ IsNumber(cells[result].vector[2], 2)
          /\ next = 4
    /\ Evaluated("vec2", 2) => IsNumber(result, 3)
    /\ RunsThrough("vecin", 1)
    /\ Evaluated("vecin", 1) =>
          /\ IsLive(result)
          /\ cells[result].type = "TYPE_PAIR"
          /\ IsVector(cells[result].car, 1)
          /\ IsNumberList(cells[result].cdr, << 2 >>)

(***************************************************************************)
(* C18.  A character literal and what follows it.                          *)
(***************************************************************************)
IsPrefix(p, d) == Len(p) <= Len(d) /\ SubSeq(d, 1, Len(p)) = p

SpaceLiteral == << "#", "\\", "s", "p", "a", "c", "e" >>

NewlineLiteral == << "#", "\\", "n", "e", "w", "l", "i", "n", "e" >>

\* the length of the character literal a text of the group "chars" starts
\* with, the character it denotes, and the character that follows it
LiteralLength(d) ==
    IF IsPrefix(SpaceLiteral, d) THEN 7
    ELSE IF IsPrefix(NewlineLiteral, d) THEN 9
    ELSE 3

LiteralValue(d) ==
    IF IsPrefix(SpaceLiteral, d) THEN " "
    ELSE IF IsPrefix(NewlineLiteral, d) THEN "\n"
    ELSE d[3]

LiteralFollower(d) ==
    IF LiteralLength(d) < Len(d) THEN d[LiteralLength(d) + 1] ELSE NUL

\* the first read_token call on the text has just ended
FirstTokenRead == input.reads = 1 /\ pc \in {"lex", "cleanup"}

\* C18: for every character c, the text #\c followed by a delimiter lexes
\* to exactly one CHARACTER token with value c and leaves the delimiter
\* unconsumed as the start of the next token; #\space and #\newline followed
\* by a delimiter lex to the space and the newline character; a character
\* literal not followed by a delimiter is a syntax error.
C18_CharacterLiteralLexes ==
    (suite = "chars" /\ FirstTokenRead) =>
        IF is_delimeter(LiteralFollower(input.data))
        THEN /\ outcome = "token"
             /\ tokens = << Chr(LiteralValue(input.data)) >>
             /\ input.pos = LiteralLength(input.data) + 1
        ELSE outcome = "syntax"

(***************************************************************************)
(* C15.  Writing a datum and reading it back.                              *)
(***************************************************************************)
\* C15: for every parseable datum d built from booleans, numbers,
\* characters, symbols, strings, lists, dotted pairs and vectors, parsing
\* the text that write prints for d yields a datum equal to d.
C15_WriteReadRoundTrip ==
    pc = "reread" =>
        /\ outcome = "reread"
        /\ EqualDatum(St("crash"), result, St("crash"), reread)

(***************************************************************************)
(* C21.  The "Too few parameters passed" error.                            *)
(***************************************************************************)
ArityError == outcome = "error" /\ message = "Too few parameters passed"

\* C21: an arity (too few parameters) error is signalled exactly when a call
\* supplies fewer arguments than the callee requires: applying a closure to
\* fewer arguments than it has formals signals it, and a built-in whose
\* required arguments are all supplied never signals it, whatever values
\* those arguments evaluate to.
\* Refuted: a closure call takes car(params) for each formal without testing
\* params, and nth_param_any reports a supplied argument whose value is the
\* empty list as missing.
C21_ArityErrorExactlyWhenTooFew ==
    /\ \A t \in {"few", "few0"} :
          (text = t /\ evaluated = 1 /\ outcome # "value") => ArityError
    /\ (text = "carnone" /\ Stepped) => ArityError
    /\ \A t \in {"carnull", "consnull"} : (text = t /\ Stepped) => ~ArityError
    /\ RunsThrough("carok", 1)
    /\ RunsThrough("more", 2)

(***************************************************************************)
(* C22.  What each atom_api_load activation does before it returns.        *)
(***************************************************************************)
\* what stands for the open activations once the discipline is broken
BadLoads == << [escape |-> << >>, destroyed |-> -1, collected |-> -1] >>

\* the activations open after the events evs, the innermost first, given
\* those open before them; BadLoads once an event breaks the discipline:
\* a destroy or a collect by an activation that is not the innermost one or
\* has done it already, or a return before both or to another escape
RECURSIVE OpenLoads(_, _)
OpenLoads(evs, open) ==
    IF evs = << >> \/ open = BadLoads THEN open
    ELSE LET e == Head(evs)
             own == open # << >> /\ Len(e.escape) = Len(Head(open).escape) + 1
         IN  CASE e.op = "enter" ->
                    OpenLoads(Tail(evs),
                              << [escape |-> e.escape, destroyed |-> 0,
                                  collected |-> 0] >> \o open)
               [] e.op = "destroy" ->
                    IF own /\ Head(open).destroyed = 0
                    THEN OpenLoads(Tail(evs),
                                   << [Head(open) EXCEPT !.destroyed = 1] >> \o Tail(open))
                    ELSE BadLoads
               [] e.op = "collect" ->
                    IF own /\ Head(open).collected = 0
                    THEN OpenLoads(Tail(evs),
                                   << [Head(open) EXCEPT !.collected = 1] >> \o Tail(open))
                    ELSE BadLoads
               [] e.op = "error" -> OpenLoads(Tail(evs), open)
               [] e.op = "return" ->
                    IF /\ open # << >>
                       /\ Head(open).destroyed = 1
                       /\ Head(open).collected = 1
                       /\ e.escape = Head(open).escape
                    THEN OpenLoads(Tail(evs), Tail(open))
                    ELSE BadLoads

\* the number of events with operation op_
Count(op_) == Cardinality({i \in DOMAIN events : events[i].op = op_})

\* C22: every invocation of atom_api_load, whether it finishes normally or
\* is aborted by an error at any depth (including while nested loads are
\* active), destroys its own token buffer exactly once, runs exactly one
\* collection, and on return leaves cont->escape equal to the one that was
\* current on entry, so escape points are saved and restored in strict LIFO
\* order.
C22_LoadCleansUpOnce ==
    /\ OpenLoads(events, << >>) # BadLoads
    /\ Len(OpenLoads(events, << >>)) = Len(cont_escape)
    /\ (status = "ok" /\ pc = "idle") =>
          /\ cont_escape = << >>
          /\ Count("return") = Count("enter")
          /\ Count("destroy") = Count("enter")
          /\ Count("collect") = Count("enter")

\* three activations were nested, the innermost was aborted by an error,
\* and all three have returned
C22_Witness ==
    /\ text = "loadnest"
    /\ status = "ok" /\ pc = "idle"
    /\ Count("enter") = 3
    /\ errors > 0
    /\ evaluated = 2

(***************************************************************************)
(* C23.  cont->allocated and the allocation list.                          *)
(***************************************************************************)
ListCells == {cont_cells[i] : i \in DOMAIN cont_cells}

\* the counter is the length of the list, which holds no cell twice, no
\* freed cell and, outside collect_garbage, no marked cell
ListCounted ==
    /\ cont_allocated = Len(cont_cells)
    /\ Cardinality(ListCells) = Len(cont_cells)
    /\ \A c \in ListCells : c \in DOMAIN cells /\ c \notin freed /\ ~cells[c].mark

\* the list cells a mark-only walk from the root environment reaches
MarkedCells ==
    {c \in ListCells : mark_environment(St("crash"), 1).cells[c].mark}

\* the collection of the top-level cleanup keeps exactly the marked cells
CollectionKeepsMarked ==
    (pc = "cleanup" /\ pc' = "idle" /\ status' = "ok") =>
        /\ {cont_cells'[i] : i \in DOMAIN cont_cells'} = MarkedCells
        /\ cont_allocated' = Cardinality(MarkedCells)
        /\ freed' = freed \cup (ListCells \ MarkedCells)

\* C23: in every reachable state cont->allocated equals the number of cells
\* on the allocation list: make_cell prepends one zeroed cell and adds one,
\* and after a collection the counter equals the number of list cells that
\* were marked, all of which remain on the list with their mark bit cleared.
C23_AllocatedCountsList ==
    /\ [](status = "ok" => ListCounted)
    /\ [][CollectionKeepsMarked]_vars

\* a collection has freed some cells and kept others
C23_Witness ==
    /\ status = "ok" /\ pc = "idle"
    /\ loads > 0
    /\ freed # {}
    /\ Len(cont_cells) > Len(Builtins)

(***************************************************************************)
(* C24.  Whenever signal_error is invoked, by the reader, the evaluator, a *)
(* built-in, the file loader or the command-line front end, an escape is   *)
(* installed: cont->escape is not NULL.  main calls signal_error and       *)
(* atom_api_loadfile on the continuation atom_api_open returned, whose     *)
(* escape is NULL, so the statement is violated by `atom -f` and by a file *)
(* that cannot be opened.                                                  *)
(***************************************************************************)
SignalledWithEscape(e) == e.op = "error" => e.escape # << >>

C24_SignalErrorHasEscape ==
    \A i \in DOMAIN events : SignalledWithEscape(events[i])

\* inside a load the errors do find an escape
C24_InsideLoad ==
    pc # "exit" => \A i \in DOMAIN events : SignalledWithEscape(events[i])

C24_InsideLoadWitness ==
    /\ text = "loadmiss"
    /\ \E i \in DOMAIN events : events[i].op = "error" /\ events[i].escape # << >>

(***************************************************************************)
(* C25.  A load in which every datum is well formed and every evaluation   *)
(* succeeds completes on the normal path: the loop is left by its break,   *)
(* no error is signalled and the escape is not taken.  In the model such a *)
(* load is one whose loop finds the token buffer used up at the start of a *)
(* datum.  parse_datum then reaches parse_vector, which signals            *)
(* "unexpected end of input", so the statement is violated by every text   *)
(* that runs through.                                                      *)
(***************************************************************************)
\* the loop has met the end of the buffer where a datum would start: all
\* the data before were parsed and evaluated
CleanLoad == pc = "cleanup" /\ outcome \in {"end", "eof"} /\ next >= Len(tokens)

ErrorSignalled == \E i \in DOMAIN events : events[i].op = "error"

C25_CleanLoadTakesNormalPath ==
    CleanLoad => outcome = "end" /\ ~ErrorSignalled

(***************************************************************************)
(* C26.  Neither append nor a quasiquote with unquote-splicing modifies a  *)
(* pair that existed before the call: a list bound to a variable keeps its *)
(* elements and its length after being appended or spliced.  In the texts  *)
(* appkeep, app1, splkeep and spl1 the list xs is bound first and then     *)
(* appended to ys, or spliced into a template; once zs is bound, xs is     *)
(* still the list it was bound to.                                         *)
(* Refuted: duplicate copies the first pair only, and append_destructive   *)
(* stores into the cdr of the last pair, which belongs to the operand when *)
(* the operand has two elements or, for a splice, any number of them.      *)
(***************************************************************************)
Operand(t) ==
    CASE t \in {"appkeep", "splkeep"} -> << 1, 2 >>
      [] t \in {"app1", "spl1"} -> << 1 >>

Operated(t) ==
    CASE t \in {"appkeep", "app1"} -> 3
      [] t \in {"splkeep", "spl1"} -> 2

C26_AppendKeepsOperands ==
    \A t \in {"appkeep", "app1", "splkeep", "spl1"} :
        /\ RunsThrough(t, Operated(t))
        /\ Evaluated(t, Operated(t)) =>
              /\ Bound(1, "xs")
              /\ IsNumberList(ValueOf(1, "xs"), Operand(t))

(***************************************************************************)
(* C27.  Every file handle opened by open-input-file / open-output-file is *)
(* closed at most once over any sequence of explicit close-input-port /    *)
(* close-output-port calls and collections: no stream appears twice among  *)
(* the streams fclose was called on.                                       *)
(* Refuted: the close built-ins call fclose and leave the port cell as it  *)
(* was, so a second close, or the collection of the cell, closes the       *)
(* stream again.                                                           *)
(***************************************************************************)
IsFileHandle(h) == \E i \in DOMAIN FileHandles : FileHandles[i] = h

C27_HandleClosedAtMostOnce ==
    \A i, j \in DOMAIN closed :
        (i # j /\ IsFileHandle(closed[i])) => closed[i] # closed[j]

(***************************************************************************)
(* C28.  The parser terminates on every finite token buffer: each          *)
(* iteration of the list and vector loops consumes a token, ends the loop  *)
(* or signals an error, so no parse of the texts of the group parser runs  *)
(* on for as many iterations as the model allows, however many that is.    *)
(* Refuted: in a vector a token that starts no datum, the dot, is neither  *)
(* consumed nor rejected; parse_datum returns NULL for it and the loop     *)
(* pushes the NULL and looks at the same token again.                      *)
(***************************************************************************)
C28_ParserTerminates ==
    suite = "parser" => outcome # "timeout"

(***************************************************************************)
(* C29.  During the tokenization of any text the write index of the token  *)
(* buffer never exceeds the capacity the buffer was allocated with, 1000   *)
(* tokens: no token is written outside the buffer, however many tokens the *)
(* text has.                                                               *)
(* Refuted: no add_ function tests the index, so the 1001st token of a     *)
(* text is written past the end of the block.                              *)
(***************************************************************************)
C29_TokenIndexWithinCapacity == Len(tokens) <= TokenListLength

(***************************************************************************)
(* C30.  Every value a top-level evaluation can return, procedures         *)
(* (closures and built-ins), ports, vectors and the absent value           *)
(* included, is printed by the driver without reaching a failing           *)
(* assertion: the texts of the group printed, each of which evaluates to   *)
(* such a value, is evaluated and printed datum by datum and its load ends *)
(* at the end of the text or at a token that starts no datum.              *)
(* Refuted: print_rec has no case for TYPE_PROCEDURE, so printing the      *)
(* value of car or of a lambda expression reaches assert(false).           *)
(***************************************************************************)
C30_EveryResultIsPrinted ==
    \A t \in TextNames["printed"] :
        (text = t /\ Stepped) => outcome \in {"value", "eof", "end"}

=============================================================================
